---- MODULE Spec2Model ----
(***************************************************************************)
(* The single-instance notification scheduler (SchedulerDO) of             *)
(* server/src/scheduler.ts with its dispatcher (server/src/pushover.ts):   *)
(* the task store, the single armed alarm, the create / delete requests    *)
(* and the alarm callback (runDue).                                        *)
(*                                                                         *)
(* Instants are counted in ticks since the Unix epoch; one minute is       *)
(* TicksPerMinute ticks, so a Date keeps a sub-minute part as it does in   *)
(* the code.  Strings the code parses are modelled by their parsed shape:  *)
(* a cron expression is the sequence of its whitespace-separated fields,   *)
(* a datetime string is its numeric fields plus its zone designator, an    *)
(* error message is the sequence of its words.                             *)
(***************************************************************************)
EXTENDS Integers, Sequences, FiniteSets, TLC

\* ---------------------------------------------------------------- bounds
MaxTasks == 2          \* task ids crypto.randomUUID can return
MaxCreates == 2        \* accepted create requests per behaviour
MaxClock == 3          \* ticks the clock may advance past StartTime
MaxRuns == 2           \* alarm callbacks per behaviour
TicksPerMinute == 2    \* clock resolution: ticks per minute
MaxChain == 2          \* applications of the cron search to its own result

\* ------------------------------------------------------ program constants
HistoryLimit == 100    \* slice(-100)
ScanLimit == 525600    \* minutes scanned by the cron search

MinuteTicks == TicksPerMinute
HourTicks == 60 * TicksPerMinute
DayTicks == 24 * HourTicks

\* ------------------------------------------------------------ Date values
\* A JavaScript value of type Date | null: a valid instant, Invalid Date, or null.
DateOf(t) == [kind |-> "date", t |-> t]
InvalidDate == [kind |-> "invalid", t |-> 0]
Null == [kind |-> "null", t |-> 0]

\* truthiness of a Date | null value: every Date object, valid or not, is truthy
Truthy(v) == v.kind # "null"

\* a < b on Dates: the comparison is false as soon as one side is NaN
DateLess(a, b) == a.kind = "date" /\ b.kind = "date" /\ a.t < b.t

\* a >= b on Dates
DateGeq(a, b) == a.kind = "date" /\ b.kind = "date" /\ a.t >= b.t

\* ---------------------------------------------------------------- calendar
\* days since 1970-01-01 of the proleptic Gregorian date y-m-d
DaysFromCivil(y, m, d) ==
  LET yy == IF m <= 2 THEN y - 1 ELSE y
      era == yy \div 400
      yoe == yy - era * 400
      mp == IF m > 2 THEN m - 3 ELSE m + 9
      doy == (153 * mp + 2) \div 5 + d - 1
      doe == yoe * 365 + yoe \div 4 - yoe \div 100 + doy
  IN era * 146097 + doe - 719468

\* Date.UTC(year, month - 1, day, hour, minute, second), in ticks
DateUTC(y, m, d, h, mi, s) ==
  DaysFromCivil(y, m, d) * DayTicks + h * HourTicks + mi * MinuteTicks
    + (s * TicksPerMinute) \div 60

\* the Gregorian date of a day number, computed in stages: the day of the
\* 400-year era, the year of the era, the day of the year, the month
CivilOfMonth(era, yoe, doy, mp) ==
  [year |-> yoe + era * 400 + (IF mp >= 10 THEN 1 ELSE 0),
   month |-> IF mp < 10 THEN mp + 3 ELSE mp - 9,
   day |-> doy - (153 * mp + 2) \div 5 + 1]

CivilOfDayOfYear(era, yoe, doy) == CivilOfMonth(era, yoe, doy, (5 * doy + 2) \div 153)

CivilOfYearOfEra(era, doe, yoe) ==
  CivilOfDayOfYear(era, yoe, doe - (365 * yoe + yoe \div 4 - yoe \div 100))

CivilOfDayOfEra(era, doe) ==
  CivilOfYearOfEra(era, doe,
                   (doe - doe \div 1460 + doe \div 36524 - doe \div 146096) \div 365)

CivilFromDays(z) ==
  CivilOfDayOfEra((z + 719468) \div 146097, (z + 719468) % 146097)

\* the configured zones and their offset from UTC in minutes
TimeZones == {"UTC", "Asia/Shanghai"}

ZoneOffsetMinutes(timeZone) == IF timeZone = "Asia/Shanghai" THEN 480 ELSE 0

\* How the engine's Intl.DateTimeFormat('en-US', { hour12: false }) writes
\* the hour after midnight: "00" under the h23 cycle, "24" under the h24
\* cycle that ECMA-402 prescribed for this locale until 2023. The engine
\* decides; it is the same for the whole life of the object.
HourCycles == {"h23", "h24"}

VARIABLE hourCycle

\* the hour part written by the formatter
FormattedHour(h) == IF h = 0 /\ hourCycle = "h24" THEN 24 ELSE h

\* getLocalTimeParts: the wall-clock fields of an instant in a zone
getLocalTimeParts(date, timeZone) ==
  LET loc == date + ZoneOffsetMinutes(timeZone) * MinuteTicks
      days == loc \div DayTicks
      rem == loc % DayTicks
      civ == CivilFromDays(days)
  IN [year |-> civ.year, month |-> civ.month, day |-> civ.day,
      hour |-> FormattedHour(rem \div HourTicks),
      minute |-> (rem % HourTicks) \div MinuteTicks,
      second |-> ((rem % MinuteTicks) * 60) \div TicksPerMinute,
      weekday |-> (days + 4) % 7]

\* getTimeZoneOffsetMinutes: the local fields read back as a UTC instant,
\* minus the instant
getTimeZoneOffsetMinutes(date, timeZone) ==
  LET parts == getLocalTimeParts(date, timeZone)
      localAsUtc == DateUTC(parts.year, parts.month, parts.day,
                            parts.hour, parts.minute, parts.second)
  IN (localAsUtc - date) \div MinuteTicks

\* ------------------------------------------------------- datetime strings
\* kind "naive":  YYYY-MM-DD[T ]HH:MM[:SS] without a zone designator
\* kind "zoned":  the same followed by Z or +HH:MM (off = minutes east of UTC)
\* kind "garbage": a non-empty string no Date parser accepts
\* kind "absent": undefined or the empty string
Naive(y, mo, d, h, mi, s) ==
  [kind |-> "naive", y |-> y, mo |-> mo, d |-> d, h |-> h, mi |-> mi, s |-> s, off |-> 0]
Zoned(y, mo, d, h, mi, s, off) ==
  [kind |-> "zoned", y |-> y, mo |-> mo, d |-> d, h |-> h, mi |-> mi, s |-> s, off |-> off]
Garbage ==
  [kind |-> "garbage", y |-> 0, mo |-> 0, d |-> 0, h |-> 0, mi |-> 0, s |-> 0, off |-> 0]
NoDatetime ==
  [kind |-> "absent", y |-> 0, mo |-> 0, d |-> 0, h |-> 0, mi |-> 0, s |-> 0, off |-> 0]

hasTimeZoneDesignator(value) == value.kind = "zoned"

\* new Date(value) for the string shapes above
NewDate(value) ==
  IF value.kind = "zoned"
    THEN DateOf(DateUTC(value.y, value.mo, value.d, value.h, value.mi, value.s)
                - value.off * MinuteTicks)
    ELSE InvalidDate

parseDateTimeInTimeZone(value, timeZone) ==
  IF hasTimeZoneDesignator(value) THEN NewDate(value)
  ELSE IF value.kind # "naive" THEN NewDate(value)
  ELSE LET utcGuess == DateUTC(value.y, value.mo, value.d, value.h, value.mi, value.s)
           offsetMinutes == getTimeZoneOffsetMinutes(utcGuess, timeZone)
       IN DateOf(utcGuess - offsetMinutes * MinuteTicks)

\* ------------------------------------------------------------------- cron
\* one field of a cron expression, by its textual shape
Star == [kind |-> "star", a |-> 0, b |-> 0, vals |-> {}]
Num(n) == [kind |-> "num", a |-> n, b |-> 0, vals |-> {}]
StarStep(n) == [kind |-> "starstep", a |-> 0, b |-> n, vals |-> {}]
Step(base, n) == [kind |-> "step", a |-> base, b |-> n, vals |-> {}]
List(vs) == [kind |-> "list", a |-> 0, b |-> 0, vals |-> vs]
Range(lo, hi) == [kind |-> "range", a |-> lo, b |-> hi, vals |-> {}]

\* variant: a step starts at its base, lower values do not match
matchCronPart_StepFromBase(pattern, value) ==
  IF pattern.kind = "star" THEN TRUE
  ELSE IF pattern.kind \in {"starstep", "step"}
    THEN LET baseVal == IF pattern.kind = "starstep" THEN 0 ELSE pattern.a
             intVal == pattern.b
         IN intVal > 0 /\ value >= baseVal /\ (value - baseVal) % intVal = 0
  ELSE IF pattern.kind = "list" THEN value \in pattern.vals
  ELSE IF pattern.kind = "range" THEN value >= pattern.a /\ value <= pattern.b
  ELSE pattern.a = value

matchCronPart(pattern, value) ==
  IF pattern.kind = "star" THEN TRUE
  ELSE IF pattern.kind \in {"starstep", "step"}
    THEN LET baseVal == IF pattern.kind = "starstep" THEN 0 ELSE pattern.a
             intVal == pattern.b
         IN intVal > 0 /\ (value - baseVal) % intVal = 0
  ELSE IF pattern.kind = "list" THEN value \in pattern.vals
  ELSE IF pattern.kind = "range" THEN value >= pattern.a /\ value <= pattern.b
  ELSE pattern.a = value

matchesCron(cron, date, timeZone) ==
  IF Len(cron) # 5 THEN FALSE
  ELSE LET local == getLocalTimeParts(date, timeZone)
       IN /\ matchCronPart(cron[1], local.minute)
          /\ matchCronPart(cron[2], local.hour)
          /\ matchCronPart(cron[3], local.day)
          /\ matchCronPart(cron[4], local.month)
          /\ matchCronPart(cron[5], local.weekday)

\* The search loop shared by getNextCronTime and getNextCronTimeAfter: the
\* first of the instants next + lo min, ..., next + (hi - 1) min that
\* matches, looked for in the lower half of the range and then in the upper
\* half, which visits the instants in the order of the loop.
RECURSIVE scanRange(_, _, _, _, _)
scanRange(cron, next, lo, hi, timeZone) ==
  IF hi - lo <= 1
    THEN IF hi > lo /\ matchesCron(cron, next + lo * MinuteTicks, timeZone)
           THEN [found |-> TRUE, t |-> next + lo * MinuteTicks]
           ELSE [found |-> FALSE, t |-> 0]
    ELSE LET mid == (lo + hi) \div 2
             lower == scanRange(cron, next, lo, mid, timeZone)
         IN IF lower.found THEN lower ELSE scanRange(cron, next, mid, hi, timeZone)

\* variant: the loop gives up one step early
cronScan_OneStepShort(cron, next, i, timeZone) ==
  IF Len(cron) # 5 THEN [found |-> FALSE, t |-> 0]
  ELSE scanRange(cron, next, i, ScanLimit - 1, timeZone)

\* for (let i = 0; i < 525600; i++): the first match among the ScanLimit
\* instants from next on. A pattern without exactly 5 fields is rejected by
\* matchesCron at every instant, so its loop runs out without a match.
cronScan(cron, next, i, timeZone) ==
  IF Len(cron) # 5 THEN [found |-> FALSE, t |-> 0]
  ELSE scanRange(cron, next, i, ScanLimit, timeZone)

\* variant: the search starts at after itself
getNextCronTimeAfter_FromAfter(cron, after, timeZone) ==
  LET hit == cronScan(cron, after, 0, timeZone)
  IN IF hit.found THEN DateOf(hit.t) ELSE DateOf(after + HourTicks)

getNextCronTimeAfter(cron, after, timeZone) ==
  LET hit == cronScan(cron, after + MinuteTicks, 0, timeZone)
  IN IF hit.found THEN DateOf(hit.t) ELSE DateOf(after + HourTicks)

\* getNextCronTime reads the clock: clock is the value of new Date()
getNextCronTime(cron, clock, timeZone) ==
  LET hit == cronScan(cron, clock + MinuteTicks, 0, timeZone)
  IN IF hit.found THEN DateOf(hit.t) ELSE DateOf(clock + HourTicks)

\* ------------------------------------------------------------- dispatcher
\* An error message is the sequence of its words; includes() is the search
\* for a contiguous run of words.
Includes(msg, needle) ==
  \E i \in 0..(Len(msg) - Len(needle)) :
     \A j \in 1..Len(needle) : msg[i + j] = needle[j]

\* what sendNotification does for one call: it returns the 2xx response or
\* throws an Error whose message carries the status and the body
Delivered == [ok |-> TRUE, isError |-> FALSE, response |-> "HTTP 200", message |-> <<>>]
Thrown(msg) == [ok |-> FALSE, isError |-> TRUE, response |-> "", message |-> msg]

\* a caught value that is not an instance of Error: a string, or an object
\* with a message property, that carries this text
NonError(msg) == [ok |-> FALSE, isError |-> FALSE, response |-> "", message |-> msg]

ApiError(status, body) == <<"Pushover", "API", "error:", status, "-">> \o body

ErrTransient == ApiError("500", <<"temporary", "failure">>)
ErrPermanent == ApiError("400", <<"application", "token", "is", "invalid">>)
ErrUserKey == ApiError("400", <<"user", "key", "is", "invalid">>)

\* env.PUSHOVER_USER_KEY, env.PUSHOVER_API_TOKEN and the endpoint
UserKey == "configured-user-key"
ApiToken == "configured-api-token"
ApiUrl == "https://api.pushover.net/1/messages.json"

\* An object is a function from its keys to strings; a property may also
\* hold undefined or null.
Undefined == "<undefined>"
JsNull == "<null>"

\* the FormData of one call, key |-> value: user, token and message are
\* appended first, then every other entry of params that holds a value
formData(params) ==
  LET others == {k \in DOMAIN params :
                   /\ k \notin {"user", "token", "message"}
                   /\ params[k] \notin {Undefined, JsNull}}
  IN [k \in {"user", "token", "message"} \cup others |->
        IF k = "user" THEN UserKey
        ELSE IF k = "token" THEN ApiToken
        ELSE params[k]]

\* what fetch does with the request: it resolves with a response or rejects
Responds(status, body) == [kind |-> "response", status |-> status, body |-> body]
Rejects(msg) == [kind |-> "rejects", status |-> 0, body |-> msg]

\* response.ok
ResponseOk(reply) == reply.status >= 200 /\ reply.status <= 299

\* variant: only a server error is thrown, a 4xx response is returned
outcomeOf_ThrowOnServerErrorOnly(reply) ==
  IF reply.kind = "rejects" THEN Thrown(reply.body)
  ELSE IF reply.status < 500
    THEN [ok |-> TRUE, isError |-> FALSE,
          response |-> "HTTP " \o ToString(reply.status), message |-> <<>>]
  ELSE Thrown(ApiError(ToString(reply.status), reply.body))

\* the try block of sendNotification once fetch has settled: the response
\* is returned or an Error is thrown; the catch block throws it again
outcomeOf(reply) ==
  IF reply.kind = "rejects" THEN Thrown(reply.body)
  ELSE IF ResponseOk(reply)
    THEN [ok |-> TRUE, isError |-> FALSE,
          response |-> "HTTP " \o ToString(reply.status), message |-> <<>>]
  ELSE Thrown(ApiError(ToString(reply.status), reply.body))

\* one call of sendNotification, given what fetch does: the fetch calls it
\* makes and how it ends
sendNotificationCall(params, reply) ==
  [fetched |-> << [url |-> ApiUrl, method |-> "POST", body |-> formData(params)] >>,
   outcome |-> outcomeOf(reply)]

\* what the Pushover API answers to the deliveries of the alarm callback
PushoverReplies ==
  { Responds(200, <<>>),
    Responds(500, <<"temporary", "failure">>),
    Responds(400, <<"application", "token", "is", "invalid">>),
    Responds(400, <<"user", "key", "is", "invalid">>) }

\* the ways one delivery of the alarm callback can end:
\* Delivered, Thrown(ErrTransient), Thrown(ErrPermanent), Thrown(ErrUserKey)
sendNotification == {outcomeOf(reply) : reply \in PushoverReplies}

\* variant: only the application-token phrase is looked for
isPermanentError_TokenOnly(error) ==
  error.isError /\ Includes(error.message, <<"application", "token", "is", "invalid">>)

\* variant: the message is searched whatever the caught value is
isPermanentError_NoInstanceCheck(error) ==
  \/ Includes(error.message, <<"token", "is", "invalid">>)
  \/ Includes(error.message, <<"user", "key", "is", "invalid">>)

isPermanentError(error) ==
  /\ error.isError
  /\ \/ Includes(error.message, <<"token", "is", "invalid">>)
     \/ Includes(error.message, <<"user", "key", "is", "invalid">>)
     \/ Includes(error.message, <<"application", "token", "is", "invalid">>)

\* ------------------------------------------------------------------ tasks
Ids == 1..MaxTasks

\* the clock when the behaviour starts: 2024-01-01T10:00:00Z
StartTime == DateUTC(2024, 1, 1, 10, 0, 0)

EveryMinute == <<Star, Star, Star, Star, Star>>
EverySecondMinute == <<StarStep(2), Star, Star, Star, Star>>
ThreeFields == <<Star, Star, Star>>
DailyAtNine == <<Num(0), Num(9), Star, Star, Star>>
HourlyAtFive == <<Num(5), Star, Star, Star, Star>>
NoCron == <<>>

Sched(type, datetime, cron) == [type |-> type, datetime |-> datetime, cron |-> cron]
NoSchedule == Sched("absent", NoDatetime, NoCron)

\* the schedules a request may carry
Schedules ==
  { Sched("once", Naive(2024, 1, 1, 10, 1, 0), NoCron),
    Sched("once", Zoned(2024, 1, 1, 10, 1, 30, 0), NoCron),
    Sched("once", Garbage, NoCron),
    Sched("once", NoDatetime, NoCron),
    Sched("repeat", NoDatetime, EveryMinute),
    Sched("repeat", NoDatetime, ThreeFields),
    Sched("repeat", NoDatetime, NoCron),
    Sched("weekly", NoDatetime, NoCron),
    NoSchedule }

\* the message of a request: "" stands for a missing or empty message
Messages == {"hi", ""}

\* the aiPrompt a client may add to a request: "" stands for a missing one
AiPrompts == {"", "summarise"}

Body(message, aiPrompt, schedule) ==
  [message |-> message, aiPrompt |-> aiPrompt, schedule |-> schedule]

\* the request whose message and schedule pass every check
PlainRequest == Body("hi", "", Sched("once", Naive(2024, 1, 1, 10, 1, 0), NoCron))

\* the bodies clients send: a message with every schedule, and no message
\* with and without an aiPrompt
Requests ==
  {Body("hi", "", schedule) : schedule \in Schedules}
    \cup {Body(message, aiPrompt, PlainRequest.schedule) :
            message \in Messages \ {"hi"}, aiPrompt \in AiPrompts}

NoRequest == Body("", "", NoSchedule)

NeverRan == [set |-> FALSE, t |-> 0]
RanAt(t) == [set |-> TRUE, t |-> t]

NewTask(id, body, clock) ==
  [id |-> id, message |-> body.message, title |-> "", schedule |-> body.schedule,
   pushover |-> <<>>, createdAt |-> clock, lastRun |-> NeverRan,
   executionHistory |-> <<>>]

\* ------------------------------------------------------------------ state
VARIABLES
  store,      \* state.storage: id |-> Task, the entry under key "task:" + id
  armed,      \* the alarm set by state.storage.setAlarm: a Date, or Null
  now,        \* the clock
  timeZone,   \* env.TIMEZONE || 'UTC'
  issued,     \* ids handed out by crypto.randomUUID so far
  runs,       \* alarm callbacks run so far
  okCount,    \* id |-> number of successful deliveries of that task
  last,       \* the operation that ran last: its input and its response
  batch,      \* the alarm callback in flight: its snapshot and pending deliveries
  manual,     \* the alarm() run by POST /trigger-alarm in flight, likewise
  call        \* the helper evaluated last: its name, arguments and result

vars ==
  <<store, armed, now, timeZone, hourCycle, issued, runs, okCount, last, batch, manual, call>>

NoTasks == [i \in {} |-> 0]

putTask(s, id, task) == [i \in DOMAIN s \cup {id} |-> IF i = id THEN task ELSE s[i]]

\* variant: the key passed to storage.delete lacks the "task:" prefix, so
\* no entry is removed
deleteTask_WrongKey(s, id) == s

deleteTask(s, id) == [i \in DOMAIN s \ {id} |-> s[i]]

\* storage.list() returns the entries in key order; the key 0 stands for
\* one that sorts before every key crypto.randomUUID returns from now on
RECURSIVE listFrom(_, _)
listFrom(s, i) ==
  IF i > MaxTasks THEN <<>>
  ELSE IF i \in DOMAIN s THEN <<s[i]>> \o listFrom(s, i + 1)
  ELSE listFrom(s, i + 1)

listAllTasks(s) == listFrom(s, 0)

\* this.memoryStorage: nothing is ever put into it
memoryStorage == NoTasks

\* listAllTasks when storage.list() throws: the catch block lists
\* memoryStorage instead
listAllTasksCatch == listFrom(memoryStorage, 1)

\* variant: a task is due only once its instant has passed
shouldRunTask_AfterOnly(task, clock, tz) ==
  IF task.schedule.type = "once"
    THEN DateLess(parseDateTimeInTimeZone(task.schedule.datetime, tz), DateOf(clock))
  ELSE IF task.schedule.type = "repeat"
    THEN LET lastRun == IF task.lastRun.set THEN task.lastRun.t ELSE 0
         IN DateLess(getNextCronTimeAfter(task.schedule.cron, lastRun, tz), DateOf(clock))
  ELSE FALSE

shouldRunTask(task, clock, tz) ==
  IF task.schedule.type = "once"
    THEN DateGeq(DateOf(clock), parseDateTimeInTimeZone(task.schedule.datetime, tz))
  ELSE IF task.schedule.type = "repeat"
    THEN LET lastRun == IF task.lastRun.set THEN task.lastRun.t ELSE 0
             nextScheduled == getNextCronTimeAfter(task.schedule.cron, lastRun, tz)
         IN DateGeq(DateOf(clock), nextScheduled)
  ELSE FALSE

calculateNextRunTime(schedule, clock, tz) ==
  IF schedule.type = "once" THEN parseDateTimeInTimeZone(schedule.datetime, tz)
  ELSE IF schedule.type = "repeat" THEN getNextCronTime(schedule.cron, clock, tz)
  ELSE Null

RECURSIVE earliestFrom(_, _, _, _, _)
earliestFrom(tasks, i, earliest, clock, tz) ==
  IF i > Len(tasks) THEN earliest
  ELSE LET next == calculateNextRunTime(tasks[i].schedule, clock, tz)
       IN IF Truthy(next) /\ (~Truthy(earliest) \/ DateLess(next, earliest))
            THEN earliestFrom(tasks, i + 1, next, clock, tz)
            ELSE earliestFrom(tasks, i + 1, earliest, clock, tz)

\* variant: a once task that has already been attempted is passed over
findEarliestRunTime_SkipAttemptedOnce(tasks, clock, tz) ==
  earliestFrom(SelectSeq(tasks, LAMBDA t : ~(t.schedule.type = "once" /\ t.lastRun.set)),
               1, Null, clock, tz)

findEarliestRunTime(tasks, clock, tz) == earliestFrom(tasks, 1, Null, clock, tz)

\* state.storage.setAlarm(time) throws for a time that is not a valid instant
setAlarmThrows(time) == time.kind # "date"

\* ------------------------------------------------------------- operations
\* the record kept of the operation that ran last: its HTTP status (200 for
\* an alarm callback that returned, 500 for one that threw), the clock it
\* read, the id it created, deleted or looked up, and for an alarm callback
\* the tasks of tasksToRun as they were listed with the outcome of each
\* delivery
Op(name, status, id, ran, out) ==
  [op |-> name, status |-> status, at |-> now, id |-> id, ran |-> ran, out |-> out,
   req |-> NoRequest, scheduledTime |-> Null, tasks |-> <<>>, logs |-> <<>>,
   sent |-> NoTasks, listFailed |-> <<FALSE, FALSE>>]

\* the record of a POST /schedule: its body and the scheduledTime of its
\* response (Null when the response carries none)
CreateOp(status, id, body, scheduledTime) ==
  [Op("create", status, id, NoTasks, NoTasks) EXCEPT
     !.req = body, !.scheduledTime = scheduledTime]

\* no alarm callback is in flight
NoBatch ==
  [active |-> FALSE, clock |-> 0, tasks |-> NoTasks, pending |-> {}, out |-> NoTasks]

\* no helper has been evaluated
NoCall == [fn |-> "none", args |-> <<>>, done |-> FALSE, result |-> FALSE]

\* Behaviours from Init stay within the three ticks after StartTime and
\* read the hour of an instant only at 10:00 or 18:00 local time or under
\* a "*" field, where both hour cycles write the same; they are explored
\* under one cycle.
Init ==
  /\ batch = NoBatch
  /\ manual = NoBatch
  /\ hourCycle = "h23"
  /\ call = NoCall
  /\ store = NoTasks
  /\ armed = Null
  /\ now = StartTime
  /\ timeZone \in TimeZones
  /\ issued = {}
  /\ runs = 0
  /\ okCount = [i \in Ids |-> 0]
  /\ last = [op |-> "init", status |-> 0, at |-> StartTime, id |-> 0,
             ran |-> NoTasks, out |-> NoTasks,
             req |-> NoRequest, scheduledTime |-> Null, tasks |-> <<>>, logs |-> <<>>,
             sent |-> NoTasks, listFailed |-> <<FALSE, FALSE>>]

\* variant: the check of datetime for the once type is missing
ValidationStatus_NoDatetimeCheck(body) ==
  IF body.message = "" THEN 400
  ELSE IF body.schedule.type = "absent" THEN 400
  ELSE IF body.schedule.type = "repeat" /\ body.schedule.cron = NoCron THEN 400
  ELSE 0

\* the validation of handleSchedule: the status of the rejection, 0 if none
ValidationStatus(body) ==
  IF body.message = "" THEN 400
  ELSE IF body.schedule.type = "absent" THEN 400
  ELSE IF body.schedule.type = "once" /\ body.schedule.datetime.kind = "absent" THEN 400
  ELSE IF body.schedule.type = "repeat" /\ body.schedule.cron = NoCron THEN 400
  ELSE 0

\* POST /schedule rejected by the validation
handleScheduleRejected ==
  \E body \in Requests :
    /\ ValidationStatus(body) # 0
    /\ last' = CreateOp(ValidationStatus(body), 0, body, Null)
    /\ last' # last
    /\ UNCHANGED <<store, armed, now, timeZone, hourCycle, issued, runs, okCount, batch, call, manual>>

\* variant: the response carries the instant the alarm was armed at
taskScheduledTime_GlobalEarliest(task, nextAlarmTime, clock, tz) == nextAlarmTime

\* the scheduledTime of the 201 response
taskScheduledTime(task, nextAlarmTime, clock, tz) ==
  calculateNextRunTime(task.schedule, clock, tz)

\* POST /schedule
handleSchedule ==
  \E body \in Requests, taskId \in Ids \ issued :
    /\ ValidationStatus(body) = 0
    /\ Cardinality(issued) < MaxCreates
    /\ LET task == NewTask(taskId, body, now)
           stored == putTask(store, taskId, task)
           tasks == listAllTasks(stored)
           nextAlarmTime == findEarliestRunTime(tasks, now, timeZone)
           threw == Truthy(nextAlarmTime) /\ setAlarmThrows(nextAlarmTime)
           scheduledTime == taskScheduledTime(task, nextAlarmTime, now, timeZone)
       IN /\ store' = stored
          /\ armed' = IF Truthy(nextAlarmTime) /\ ~threw THEN nextAlarmTime ELSE armed
          /\ last' = IF threw THEN CreateOp(500, taskId, body, Null)
                             ELSE CreateOp(201, taskId, body, scheduledTime)
    /\ issued' = issued \cup {taskId}
    /\ UNCHANGED <<now, timeZone, hourCycle, runs, okCount, batch, call, manual>>

\* the record of a GET: the tasks and the logs of its response
ReadOp(name, status, id, tasks, logs) ==
  [Op(name, status, id, NoTasks, NoTasks) EXCEPT !.tasks = tasks, !.logs = logs]

\* variant: the first listed task is taken whatever its id
find_FirstListed(tasks, taskId) ==
  IF tasks = <<>> THEN <<>> ELSE <<tasks[1]>>

\* tasks.find(t => t.id === taskId): the first match, as a sequence of at
\* most one task
find(tasks, taskId) ==
  LET hits == SelectSeq(tasks, LAMBDA t : t.id = taskId)
  IN IF hits = <<>> THEN <<>> ELSE <<hits[1]>>

\* GET /tasks
handleListTasks ==
  /\ last' = ReadOp("list", 200, 0, listAllTasks(store), <<>>)
  /\ last' # last
  /\ UNCHANGED <<store, armed, now, timeZone, hourCycle, issued, runs, okCount, batch, call, manual>>

\* GET /tasks/:id
handleGetTask ==
  \E taskId \in Ids :
    /\ LET task == find(listAllTasks(store), taskId)
       IN last' = IF task = <<>> THEN ReadOp("get", 404, taskId, <<>>, <<>>)
                                 ELSE ReadOp("get", 200, taskId, task, <<>>)
    /\ last' # last
    /\ UNCHANGED <<store, armed, now, timeZone, hourCycle, issued, runs, okCount, batch, call, manual>>

\* GET /tasks/:id/logs
handleTaskLogs ==
  \E taskId \in Ids :
    /\ LET task == find(listAllTasks(store), taskId)
       IN last' = IF task = <<>> THEN ReadOp("logs", 404, taskId, <<>>, <<>>)
                                 ELSE ReadOp("logs", 200, taskId, <<>>,
                                             task[1].executionHistory)
    /\ last' # last
    /\ UNCHANGED <<store, armed, now, timeZone, hourCycle, issued, runs, okCount, batch, call, manual>>

\* DELETE /tasks/:id
handleDeleteTask ==
  \E taskId \in Ids :
    /\ taskId \in issued
    /\ store' = deleteTask(store, taskId)
    /\ last' = Op("delete", 200, taskId, NoTasks, NoTasks)
    /\ UNCHANGED <<armed, now, timeZone, hourCycle, issued, runs, okCount, batch, call, manual>>

\* the entry appended to executionHistory for one outcome
ExecutionLog(clock, outcome) ==
  [executedAt |-> clock,
   status |-> IF outcome.ok THEN "success" ELSE "failed",
   response |-> outcome.response,
   error |-> outcome.message]

\* variant: slice(0, HistoryLimit), which keeps the oldest entries
LastEntries_KeepOldest(h) ==
  IF Len(h) <= HistoryLimit THEN h ELSE SubSeq(h, 1, HistoryLimit)

\* slice(-HistoryLimit)
LastEntries(h) ==
  IF Len(h) <= HistoryLimit THEN h ELSE SubSeq(h, Len(h) - HistoryLimit + 1, Len(h))

\* variant: the log is appended but lastRun is left as it was
updatedTask_NoLastRun(task, clock, outcome) ==
  [task EXCEPT !.executionHistory =
                  LastEntries(task.executionHistory \o <<ExecutionLog(clock, outcome)>>)]

\* variant: the task written back is stamped as created by this run and
\* loses its pushover object
updatedTask_Recreated(task, clock, outcome) ==
  [task EXCEPT !.lastRun = RanAt(clock),
               !.createdAt = clock,
               !.pushover = <<>>,
               !.executionHistory =
                  LastEntries(task.executionHistory \o <<ExecutionLog(clock, outcome)>>)]

\* the task written back after a run that keeps it
updatedTask(task, clock, outcome) ==
  [task EXCEPT !.lastRun = RanAt(clock),
               !.executionHistory =
                  LastEntries(task.executionHistory \o <<ExecutionLog(clock, outcome)>>)]

\* variant: a delivered once task is written back instead of deleted
deletesTask_KeepOnce(task, outcome) ==
  IF outcome.ok THEN FALSE ELSE isPermanentError(outcome)

\* variant: every failure deletes the task
deletesTask_AnyFailure(task, outcome) ==
  IF outcome.ok THEN task.schedule.type = "once" ELSE TRUE

\* variant: every delivered task is deleted, whatever its schedule type
deletesTask_AnyDelivered(task, outcome) ==
  IF outcome.ok THEN TRUE ELSE isPermanentError(outcome)

\* does the body of the map callback delete the task for this outcome
deletesTask(task, outcome) ==
  IF outcome.ok THEN task.schedule.type = "once" ELSE isPermanentError(outcome)

\* variant: the deletes have no effect, a task to delete is left as it was
afterRun_DeleteIgnored(s, tasksToRun, out, clock) ==
  [i \in DOMAIN s |->
     IF i \in tasksToRun /\ ~deletesTask(s[i], out[i])
       THEN updatedTask(s[i], clock, out[i]) ELSE s[i]]

\* a property that is missing from the stored task reads as undefined
Opt(v) == IF v = "" THEN Undefined ELSE v

\* { ...base, ...over }: the keys of over replace those of base
Spread(base, over) ==
  [k \in DOMAIN base \cup DOMAIN over |-> IF k \in DOMAIN over THEN over[k] ELSE base[k]]

\* the params the map callback passes to sendNotification for one task
alarmParams(task) ==
  Spread([message |-> task.message, title |-> Opt(task.title)], task.pushover)

\* variant: every stored task gets the lastRun of this run, due or not
afterRun_StampsEveryTask(s, tasksToRun, out, clock) ==
  [i \in {j \in DOMAIN s : ~(j \in tasksToRun /\ deletesTask(s[j], out[j]))} |->
     IF i \in tasksToRun THEN updatedTask(s[i], clock, out[i])
     ELSE [s[i] EXCEPT !.lastRun = RanAt(clock)]]

\* the store after every task of tasksToRun has been processed
afterRun(s, tasksToRun, out, clock) ==
  [i \in {j \in DOMAIN s : ~(j \in tasksToRun /\ deletesTask(s[j], out[j]))} |->
     IF i \in tasksToRun THEN updatedTask(s[i], clock, out[i]) ELSE s[i]]

\* one call of listAllTasks, given whether storage.list() throws
listing(s, listThrows) == IF listThrows THEN listAllTasksCatch ELSE listAllTasks(s)

\* the alarm callback, given whether storage.list() throws in the listing
\* that selects the tasks to run and in the listing that follows the batch
alarmWhen(firstThrows, secondThrows) ==
  /\ armed.kind = "date"
  /\ now >= armed.t
  /\ runs < MaxRuns
  /\ LET tasks == listing(store, firstThrows)
         tasksToRun == {tasks[k].id : k \in {j \in 1..Len(tasks) :
                                              shouldRunTask(tasks[j], now, timeZone)}}
     IN \E out \in [tasksToRun -> sendNotification] :
          LET stored == afterRun(store, tasksToRun, out, now)
              updatedTasks == listing(stored, secondThrows)
              nextRun == findEarliestRunTime(updatedTasks, now, timeZone)
              threw == Truthy(nextRun) /\ setAlarmThrows(nextRun)
          IN /\ store' = stored
             /\ IF threw
                  THEN armed' \in {Null, armed}    \* the platform may retry the callback
                  ELSE armed' = nextRun
             /\ okCount' = [i \in Ids |->
                              IF i \in tasksToRun /\ out[i].ok
                                THEN okCount[i] + 1 ELSE okCount[i]]
             /\ last' = [Op("alarm", IF threw THEN 500 ELSE 200, 0,
                            [i \in tasksToRun |-> store[i]], out)
                          EXCEPT !.sent = [i \in tasksToRun |->
                                             formData(alarmParams(store[i]))],
                                 !.listFailed = <<firstThrows, secondThrows>>]
  /\ runs' = runs + 1
  /\ UNCHANGED <<now, timeZone, hourCycle, issued, batch, call, manual>>

\* the alarm callback, run by the platform once the armed instant is reached
alarm == alarmWhen(FALSE, FALSE)

\* the alarm callback while the storage fails to list
alarmListFails ==
  \E firstThrows, secondThrows \in BOOLEAN :
     /\ firstThrows \/ secondThrows
     /\ alarmWhen(firstThrows, secondThrows)

\* time passes
Tick ==
  /\ now < StartTime + MaxClock
  /\ now' = now + 1
  /\ UNCHANGED <<store, armed, timeZone, hourCycle, issued, runs, okCount, last, batch, call, manual>>

\* the operations that change the store or the alarm, and the clock
Next == handleSchedule \/ handleDeleteTask \/ alarm \/ Tick

Spec == Init /\ [][Next]_vars

\* A scheduler restored with one repeat task that has fired every minute for
\* HistoryLimit - 1 minutes, the last time one minute before StartTime, and
\* whose alarm is armed for StartTime.
LongHistory ==
  [k \in 1..(HistoryLimit - 1) |->
     ExecutionLog(StartTime - (HistoryLimit - k) * MinuteTicks, Delivered)]

LongRunningTask ==
  [id |-> 1, message |-> "hi", title |-> "",
   schedule |-> Sched("repeat", NoDatetime, EveryMinute), pushover |-> <<>>,
   createdAt |-> StartTime - HistoryLimit * MinuteTicks,
   lastRun |-> RanAt(StartTime - MinuteTicks),
   executionHistory |-> LongHistory]

InitCap ==
  /\ batch = NoBatch
  /\ manual = NoBatch
  /\ hourCycle = "h23"
  /\ call = NoCall
  /\ store = putTask(NoTasks, 1, LongRunningTask)
  /\ armed = DateOf(StartTime)
  /\ now = StartTime
  /\ timeZone \in TimeZones
  /\ issued = {1}
  /\ runs = 0
  /\ okCount = [i \in Ids |-> IF i = 1 THEN HistoryLimit - 1 ELSE 0]
  /\ last = [op |-> "init", status |-> 0, at |-> StartTime, id |-> 0,
             ran |-> NoTasks, out |-> NoTasks,
             req |-> NoRequest, scheduledTime |-> Null, tasks |-> <<>>, logs |-> <<>>,
             sent |-> NoTasks, listFailed |-> <<FALSE, FALSE>>]

SpecCap == InitCap /\ [][Next]_vars

\* A scheduler restored with one once task, due at StartTime, that was
\* created with a title and a pushover object; its alarm is armed for
\* StartTime.
ProviderParams ==
  { [priority |-> "1"],
    [priority |-> "1", sound |-> JsNull],
    [title |-> "from pushover"],
    [message |-> "from pushover"],
    [user |-> "other-user", token |-> "other-token", device |-> "phone"] }

Titles == {"", "hello"}

TaskWithParams(title, params) ==
  [id |-> 1, message |-> "hi", title |-> title,
   schedule |-> Sched("once", Zoned(2024, 1, 1, 10, 0, 0, 0), NoCron),
   pushover |-> params, createdAt |-> StartTime - MinuteTicks,
   lastRun |-> NeverRan, executionHistory |-> <<>>]

InitSend ==
  /\ batch = NoBatch
  /\ manual = NoBatch
  /\ hourCycle = "h23"
  /\ call = NoCall
  /\ \E title \in Titles, params \in ProviderParams :
        store = putTask(NoTasks, 1, TaskWithParams(title, params))
  /\ armed = DateOf(StartTime)
  /\ now = StartTime
  /\ timeZone = "UTC"
  /\ issued = {1}
  /\ runs = 0
  /\ okCount = [i \in Ids |-> 0]
  /\ last = [op |-> "init", status |-> 0, at |-> StartTime, id |-> 0,
             ran |-> NoTasks, out |-> NoTasks,
             req |-> NoRequest, scheduledTime |-> Null, tasks |-> <<>>, logs |-> <<>>,
             sent |-> NoTasks, listFailed |-> <<FALSE, FALSE>>]

SpecSend == InitSend /\ [][Next]_vars

\* ---------------------------------------------- the alarm callback in steps
\* The callback gives way to other events while it awaits the deliveries:
\* it lists and filters, then each map callback resumes in its own step when
\* its delivery has settled, and the rest runs when Promise.all has.

\* alarm(), from its start to the call of Promise.all: the tasks are listed,
\* the clock is read and tasksToRun is fixed; the alarm that fired is spent
alarmBegin ==
  /\ ~batch.active
  /\ armed.kind = "date"
  /\ now >= armed.t
  /\ runs < MaxRuns
  /\ LET tasks == listAllTasks(store)
         tasksToRun == {tasks[k].id : k \in {j \in 1..Len(tasks) :
                                              shouldRunTask(tasks[j], now, timeZone)}}
     IN batch' = [active |-> TRUE, clock |-> now,
                  tasks |-> [i \in tasksToRun |-> store[i]],
                  pending |-> tasksToRun, out |-> NoTasks]
  /\ armed' = Null
  /\ runs' = runs + 1
  /\ UNCHANGED <<store, now, timeZone, hourCycle, issued, okCount, last, call, manual>>

\* variant: a callback that catches a failure ends the whole batch
pendingAfter_FailureEndsBatch(pending, id, outcome) ==
  IF outcome.ok THEN pending \ {id} ELSE {}

\* the callbacks of the batch still to settle once the one of id has
pendingAfter(pending, id, outcome) == pending \ {id}

\* one map callback, from the moment its delivery settles to its end: the
\* task as it was listed is deleted, or written back with the entry added
dispatchDone ==
  \E id \in batch.pending, outcome \in sendNotification :
    LET task == batch.tasks[id]
    IN /\ batch.active
       /\ store' = IF deletesTask(task, outcome)
                     THEN deleteTask(store, id)
                     ELSE putTask(store, id, updatedTask(task, now, outcome))
       /\ okCount' = [okCount EXCEPT ![id] = IF outcome.ok THEN @ + 1 ELSE @]
       /\ batch' = [batch EXCEPT
                      !.pending = pendingAfter(batch.pending, id, outcome),
                      !.out = [i \in DOMAIN batch.out \cup {id} |->
                                 IF i = id THEN outcome ELSE batch.out[i]]]
       /\ UNCHANGED <<armed, now, timeZone, hourCycle, issued, runs, last, call, manual>>

\* variant: the batch is not awaited
batchSettled_NotAwaited(b) == TRUE

\* await Promise.all(...): every callback of the batch has ended
batchSettled(b) == b.pending = {}

\* alarm(), from the return of Promise.all to its end
alarmEnd ==
  /\ batch.active
  /\ batchSettled(batch)
  /\ LET updatedTasks == listAllTasks(store)
         nextRun == findEarliestRunTime(updatedTasks, now, timeZone)
         threw == Truthy(nextRun) /\ setAlarmThrows(nextRun)
     IN /\ IF threw
             THEN armed' \in {armed, DateOf(batch.clock)}    \* the platform may retry
             ELSE armed' = IF Truthy(nextRun) THEN nextRun ELSE armed
        /\ last' = [Op("alarm", IF threw THEN 500 ELSE 200, 0, batch.tasks, batch.out)
                     EXCEPT !.at = batch.clock,
                            !.sent = [i \in DOMAIN batch.tasks |->
                                        formData(alarmParams(batch.tasks[i]))]]
  /\ batch' = NoBatch
  /\ UNCHANGED <<store, now, timeZone, hourCycle, issued, runs, okCount, call, manual>>

NextSteps ==
  \/ handleSchedule \/ handleDeleteTask
  \/ alarmBegin \/ dispatchDone \/ alarmEnd
  \/ Tick

SpecSteps == InitCap /\ [][NextSteps]_vars

\* The scheduler of InitCap after a POST /schedule whose datetime no Date
\* parser accepts: the task was stored, under a key that sorts first, and
\* the request answered 500 with the alarm left as it was.
UnparseableTask == NewTask(0, Body("hi", "", Sched("once", Garbage, NoCron)), StartTime - 1)

InitUnparseable ==
  /\ batch = NoBatch
  /\ manual = NoBatch
  /\ hourCycle = "h23"
  /\ call = NoCall
  /\ store = putTask(putTask(NoTasks, 1, LongRunningTask), 0, UnparseableTask)
  /\ armed = DateOf(StartTime)
  /\ now = StartTime
  /\ timeZone \in TimeZones
  /\ issued = {1}
  /\ runs = 0
  /\ okCount = [i \in Ids |-> IF i = 1 THEN HistoryLimit - 1 ELSE 0]
  /\ last = CreateOp(500, 0, Body("hi", "", Sched("once", Garbage, NoCron)), Null)

SpecUnparseable == InitUnparseable /\ [][NextSteps]_vars

\* the scheduler on a storage whose list() may throw
NextFault == handleSchedule \/ handleDeleteTask \/ alarm \/ alarmListFails \/ Tick

SpecFault == InitCap /\ [][NextFault]_vars

\* The platform runs the alarm callback as soon as the armed instant is
\* reached: the clock does not advance while an alarm is pending.
AlarmPending == armed.kind = "date" /\ now >= armed.t

TickPrompt == ~AlarmPending /\ Tick

NextPrompt == handleSchedule \/ handleDeleteTask \/ alarm \/ TickPrompt

SpecPrompt == InitCap /\ [][NextPrompt]_vars

\* every request the Durable Object serves, the alarm callback and the clock
NextApi ==
  \/ handleSchedule \/ handleScheduleRejected \/ handleDeleteTask
  \/ handleListTasks \/ handleGetTask \/ handleTaskLogs
  \/ alarm \/ Tick

SpecApi == InitCap /\ [][NextApi]_vars

\* ------------------------------------ the Durable Object of server/src/index.ts
\* The SchedulerDO defined in index.ts serves POST /trigger-alarm, which
\* calls alarm() by hand. Its helpers take no zone: they read a Date with
\* getMinutes, getHours, getDate, getMonth and getDay, in the zone of the
\* runtime, which is UTC. Its alarm() keeps no execution history and leaves
\* a task whose delivery failed as it is.

\* matchesCron(cron, date) of index.ts
matchesCronLocal(cron, date) ==
  IF Len(cron) # 5 THEN FALSE
  ELSE LET days == date \div DayTicks
           rem == date % DayTicks
           civ == CivilFromDays(days)
       IN /\ matchCronPart(cron[1], (rem % HourTicks) \div MinuteTicks)
          /\ matchCronPart(cron[2], rem \div HourTicks)
          /\ matchCronPart(cron[3], civ.day)
          /\ matchCronPart(cron[4], civ.month)
          /\ matchCronPart(cron[5], (days + 4) % 7)

\* the search loop of getNextCronTimeAfter of index.ts, in halves
RECURSIVE scanRangeLocal(_, _, _, _)
scanRangeLocal(cron, next, lo, hi) ==
  IF hi - lo <= 1
    THEN IF hi > lo /\ matchesCronLocal(cron, next + lo * MinuteTicks)
           THEN [found |-> TRUE, t |-> next + lo * MinuteTicks]
           ELSE [found |-> FALSE, t |-> 0]
    ELSE LET mid == (lo + hi) \div 2
             lower == scanRangeLocal(cron, next, lo, mid)
         IN IF lower.found THEN lower ELSE scanRangeLocal(cron, next, mid, hi)

\* getNextCronTimeAfter(cron, after) and getNextCronTime(cron) of index.ts
getNextCronTimeAfterLocal(cron, after) ==
  LET hit == IF Len(cron) # 5 THEN [found |-> FALSE, t |-> 0]
             ELSE scanRangeLocal(cron, after + MinuteTicks, 0, ScanLimit)
  IN IF hit.found THEN DateOf(hit.t) ELSE DateOf(after + HourTicks)

\* new Date(value): a string without designator is read in the zone of the
\* runtime
NewDateLocal(value) ==
  IF value.kind \in {"zoned", "naive"}
    THEN DateOf(DateUTC(value.y, value.mo, value.d, value.h, value.mi, value.s)
                - value.off * MinuteTicks)
    ELSE InvalidDate

\* shouldRunTask(task, now) of index.ts
shouldRunTaskLocal(task, clock) ==
  IF task.schedule.type = "once"
    THEN DateGeq(DateOf(clock), NewDateLocal(task.schedule.datetime))
  ELSE IF task.schedule.type = "repeat"
    THEN LET lastRun == IF task.lastRun.set THEN task.lastRun.t ELSE 0
         IN DateGeq(DateOf(clock), getNextCronTimeAfterLocal(task.schedule.cron, lastRun))
  ELSE FALSE

\* calculateNextRunTime(schedule) of index.ts
calculateNextRunTimeLocal(schedule, clock) ==
  IF schedule.type = "once" THEN NewDateLocal(schedule.datetime)
  ELSE IF schedule.type = "repeat" THEN getNextCronTimeAfterLocal(schedule.cron, clock)
  ELSE Null

\* findEarliestRunTime(tasks) of index.ts
RECURSIVE earliestFromLocal(_, _, _, _)
earliestFromLocal(tasks, i, earliest, clock) ==
  IF i > Len(tasks) THEN earliest
  ELSE LET next == calculateNextRunTimeLocal(tasks[i].schedule, clock)
       IN IF Truthy(next) /\ (~Truthy(earliest) \/ DateLess(next, earliest))
            THEN earliestFromLocal(tasks, i + 1, next, clock)
            ELSE earliestFromLocal(tasks, i + 1, earliest, clock)

findEarliestRunTimeLocal(tasks, clock) == earliestFromLocal(tasks, 1, Null, clock)

\* alarm() of index.ts up to Promise.all: the ids of tasksToRun
tasksToRunLocal(s, clock) ==
  {i \in DOMAIN s : shouldRunTaskLocal(s[i], clock)}

\* an alarm() that has listed, read the clock and started its deliveries
Started(tasksToRun) ==
  [active |-> TRUE, clock |-> now, tasks |-> [i \in tasksToRun |-> store[i]],
   pending |-> tasksToRun, out |-> NoTasks]

\* the map callback of index.ts once its delivery has settled: a delivered
\* once task is deleted, a delivered repeat task written back with its
\* lastRun, and a failure is only logged
storeAfterDelivery(s, task, outcome, clock) ==
  IF ~outcome.ok THEN s
  ELSE IF task.schedule.type = "once" THEN deleteTask(s, task.id)
  ELSE putTask(s, task.id, [task EXCEPT !.lastRun = RanAt(clock)])

\* an alarm() in flight after the callback of id has ended with outcome
Settled(inv, id, outcome) ==
  [inv EXCEPT !.pending = inv.pending \ {id},
              !.out = [i \in DOMAIN inv.out \cup {id} |->
                         IF i = id THEN outcome ELSE inv.out[i]]]

\* the platform runs alarm() of index.ts: up to Promise.all
alarmLocalBegin ==
  /\ ~batch.active
  /\ armed.kind = "date"
  /\ now >= armed.t
  /\ runs < MaxRuns
  /\ batch' = Started(tasksToRunLocal(store, now))
  /\ armed' = Null
  /\ runs' = runs + 1
  /\ UNCHANGED <<store, now, timeZone, hourCycle, issued, okCount, last, manual, call>>

\* one map callback of the alarm() run by the platform
alarmLocalDispatchDone ==
  \E id \in batch.pending, outcome \in sendNotification :
    /\ batch.active
    /\ store' = storeAfterDelivery(store, batch.tasks[id], outcome, now)
    /\ okCount' = [okCount EXCEPT ![id] = IF outcome.ok THEN @ + 1 ELSE @]
    /\ batch' = Settled(batch, id, outcome)
    /\ UNCHANGED <<armed, now, timeZone, hourCycle, issued, runs, last, manual, call>>

\* the alarm after the last lines of alarm() of index.ts: list, find the
\* earliest run time, set the alarm if there is one
armedAfterLocal(s, clock, kept, threwKeeps) ==
  LET nextRun == findEarliestRunTimeLocal(listAllTasks(s), clock)
  IN IF ~Truthy(nextRun) THEN {kept}
     ELSE IF setAlarmThrows(nextRun) THEN threwKeeps
     ELSE {nextRun}

\* does that setAlarm throw
armingThrowsLocal(s, clock) ==
  LET nextRun == findEarliestRunTimeLocal(listAllTasks(s), clock)
  IN Truthy(nextRun) /\ setAlarmThrows(nextRun)

\* the alarm() run by the platform, from the return of Promise.all on
alarmLocalEnd ==
  /\ batch.active
  /\ batch.pending = {}
  /\ armed' \in armedAfterLocal(store, now, armed, {armed, DateOf(batch.clock)})
  /\ last' = [Op("alarm", IF armingThrowsLocal(store, now) THEN 500 ELSE 200, 0,
                 batch.tasks, batch.out) EXCEPT !.at = batch.clock]
  /\ batch' = NoBatch
  /\ UNCHANGED <<store, now, timeZone, hourCycle, issued, runs, okCount, manual, call>>

\* POST /trigger-alarm: handleTriggerAlarm calls alarm(), up to Promise.all
handleTriggerAlarmBegin ==
  /\ ~manual.active
  /\ runs < MaxRuns
  /\ manual' = Started(tasksToRunLocal(store, now))
  /\ runs' = runs + 1
  /\ UNCHANGED <<store, armed, now, timeZone, hourCycle, issued, okCount, last, batch, call>>

\* one map callback of the alarm() called by handleTriggerAlarm
handleTriggerAlarmDispatchDone ==
  \E id \in manual.pending, outcome \in sendNotification :
    /\ manual.active
    /\ store' = storeAfterDelivery(store, manual.tasks[id], outcome, now)
    /\ okCount' = [okCount EXCEPT ![id] = IF outcome.ok THEN @ + 1 ELSE @]
    /\ manual' = Settled(manual, id, outcome)
    /\ UNCHANGED <<armed, now, timeZone, hourCycle, issued, runs, last, batch, call>>

\* handleTriggerAlarm from the return of Promise.all on: the rest of
\* alarm(), then the listing for remainingTasks and the response
handleTriggerAlarmEnd ==
  /\ manual.active
  /\ manual.pending = {}
  /\ armed' \in armedAfterLocal(store, now, armed, {armed})
  /\ last' = [Op("trigger", IF armingThrowsLocal(store, now) THEN 500 ELSE 200, 0,
                 manual.tasks, manual.out)
               EXCEPT !.at = manual.clock,
                      !.tasks = IF armingThrowsLocal(store, now) THEN <<>>
                                ELSE listAllTasks(store)]
  /\ manual' = NoBatch
  /\ UNCHANGED <<store, now, timeZone, hourCycle, issued, runs, okCount, batch, call>>

\* A Durable Object of index.ts restored with a once task and a repeat
\* task that ran a minute ago, both due at StartTime, the alarm armed for
\* StartTime.
OnceAtStart ==
  NewTask(1, Body("hi", "", Sched("once", Zoned(2024, 1, 1, 10, 0, 0, 0), NoCron)),
          StartTime - MinuteTicks)

RepeatRanBefore ==
  [NewTask(2, Body("hi", "", Sched("repeat", NoDatetime, EveryMinute)),
           StartTime - 2 * MinuteTicks)
   EXCEPT !.lastRun = RanAt(StartTime - MinuteTicks)]

InitTrigger ==
  /\ batch = NoBatch
  /\ manual = NoBatch
  /\ hourCycle = "h23"
  /\ call = NoCall
  /\ \E present \in (SUBSET {1, 2}) \ {{}} :
        store = [i \in present |-> IF i = 1 THEN OnceAtStart ELSE RepeatRanBefore]
  /\ armed = DateOf(StartTime)
  /\ now = StartTime
  /\ timeZone = "UTC"
  /\ issued = {1, 2}
  /\ runs = 0
  /\ okCount = [i \in Ids |-> 0]
  /\ last = [op |-> "init", status |-> 0, at |-> StartTime, id |-> 0,
             ran |-> NoTasks, out |-> NoTasks,
             req |-> NoRequest, scheduledTime |-> Null, tasks |-> <<>>, logs |-> <<>>,
             sent |-> NoTasks, listFailed |-> <<FALSE, FALSE>>]

NextTrigger ==
  \/ alarmLocalBegin \/ alarmLocalDispatchDone \/ alarmLocalEnd
  \/ handleTriggerAlarmBegin \/ handleTriggerAlarmDispatchDone \/ handleTriggerAlarmEnd
  \/ Tick

SpecTrigger == InitTrigger /\ [][NextTrigger]_vars

\* ------------------------------------------------------- helpers alone
\* The helpers of the scheduler and of the Pushover client, each evaluated
\* once on arguments drawn when the run starts.
ToCall(fn, args) == [fn |-> fn, args |-> args, done |-> FALSE, result |-> FALSE]

\* the texts of the caught values
ErrorTexts ==
  { <<"token", "is", "invalid">>,
    <<"user", "key", "is", "invalid">>,
    <<"application", "token", "is", "invalid">>,
    <<"temporary", "failure">>,
    <<"Token", "is", "invalid">>,
    <<"token", "invalid">>,
    <<"invalid", "is", "token">>,
    <<"user", "is", "invalid">>,
    <<"key", "is", "invalid">>,
    <<>>,
    ErrTransient, ErrPermanent, ErrUserKey,
    ApiError("401", <<"your", "token", "is", "invalid", "or", "expired">>) }

CaughtValues == {Thrown(m) : m \in ErrorTexts} \cup {NonError(m) : m \in ErrorTexts}

\* the params objects passed to sendNotification
ParamsObjects ==
  { [k \in {"message"} |-> "hello"],
    [message |-> "hello", priority |-> "1"],
    [message |-> "hello", title |-> Undefined],
    [message |-> "hello", title |-> "t", sound |-> JsNull],
    [message |-> "hello", user |-> "other-user", token |-> "other-token"] }

\* what fetch does
FetchReplies ==
  {Responds(st, b) : st \in {200, 204, 400, 429, 500},
                     b \in { <<>>, <<"temporary", "failure">>,
                             <<"application", "token", "is", "invalid">> }}
  \cup {Rejects(<<"fetch", "failed">>)}

\* datetime strings: naive ones around midnight, noon and the turn of the
\* month and of the year, and the same wall-clock times with a designator
WallClocks ==
  {Naive(d[1], d[2], d[3], h, mi, 0) :
     d \in { <<2024, 1, 1>>, <<2024, 2, 29>>, <<2023, 12, 31>> },
     h \in {0, 8, 9, 16, 23}, mi \in {0, 30}}

Designated ==
  {Zoned(2024, 1, 1, h, 30, 0, off) : h \in {0, 9, 23}, off \in {0, 480, -300}}

DatetimeStrings == WallClocks \cup Designated \cup {Garbage}

\* stored tasks: every schedule that handleSchedule accepts, and an hourly
\* one ("1 * * * *"), never run or last run around StartTime
HourlyAtOne == <<Num(1), Star, Star, Star, Star>>

StoredSchedules ==
  {sch \in Schedules : ValidationStatus(Body("hi", "", sch)) = 0}
  \cup {Sched("repeat", NoDatetime, HourlyAtOne)}

LastRuns ==
  {NeverRan, RanAt(StartTime - MinuteTicks), RanAt(StartTime), RanAt(StartTime + 1)}

StoredTasks ==
  {[NewTask(1, Body("hi", "", sch), StartTime - MinuteTicks) EXCEPT !.lastRun = lr] :
     sch \in StoredSchedules, lr \in LastRuns}

\* the instants at which the helpers are asked
Clocks ==
  {StartTime - MinuteTicks, StartTime, StartTime + 1, StartTime + MinuteTicks,
   StartTime + MinuteTicks + 1, StartTime + 2 * MinuteTicks}

\* cron expressions: "15 0 * * *", "*/15 * * * *", "* * * * 1", "* * * * 2",
\* "* * * * 0", "* 8 * * 1-5", "15 * 29 2 *", "0,15 0 1 1,3 *", one of three
\* fields and one of six
CronExpressions ==
  { <<Num(15), Num(0), Star, Star, Star>>,
    <<StarStep(15), Star, Star, Star, Star>>,
    <<Star, Star, Star, Star, Num(1)>>,
    <<Star, Star, Star, Star, Num(2)>>,
    <<Star, Star, Star, Star, Num(0)>>,
    <<Star, Num(8), Star, Star, Range(1, 5)>>,
    <<Num(15), Star, Num(29), Num(2), Star>>,
    <<List({0, 15}), Num(0), Num(1), List({1, 3}), Star>>,
    ThreeFields,
    <<Star, Star, Star, Star, Star, Star>> }

\* instants: a Monday at 00:15 and 00:14 UTC, a Sunday just before midnight
\* UTC, the leap day at 16:15 UTC and a Wednesday morning
Instants ==
  { DateUTC(2024, 1, 1, 0, 15, 0), DateUTC(2024, 1, 1, 0, 14, 0),
    DateUTC(2023, 12, 31, 23, 59, 30), DateUTC(2024, 2, 29, 16, 15, 0),
    DateUTC(2024, 1, 3, 8, 0, 0), DateUTC(2024, 1, 1, 16, 15, 0) }

\* single fields: "*", "0", "5", "7", "59", "1,15,30", "0,0", "1-5", "5-1",
\* "3-3", "*/1", "*/5", "*/15", "*/0", "5/15", "30/15", "0/7", "3/0"
CronFields ==
  {Star} \cup {Num(n) : n \in {0, 5, 7, 59}}
  \cup {List({1, 15, 30}), List({0}), Range(1, 5), Range(5, 1), Range(3, 3)}
  \cup {StarStep(n) : n \in {0, 1, 5, 15}}
  \cup {Step(5, 15), Step(30, 15), Step(0, 7), Step(3, 0)}

\* the values a calendar field takes
FieldValues == 0..59

InitFn ==
  /\ store = NoTasks
  /\ armed = Null
  /\ now = StartTime
  /\ timeZone = "UTC"
  /\ issued = {}
  /\ runs = 0
  /\ okCount = [i \in Ids |-> 0]
  /\ last = [op |-> "init", status |-> 0, at |-> StartTime, id |-> 0,
             ran |-> NoTasks, out |-> NoTasks,
             req |-> NoRequest, scheduledTime |-> Null, tasks |-> <<>>, logs |-> <<>>,
             sent |-> NoTasks, listFailed |-> <<FALSE, FALSE>>]
  /\ batch = NoBatch
  /\ manual = NoBatch
  /\ hourCycle \in HourCycles
  /\ \/ call \in {ToCall("isPermanentError", <<e>>) : e \in CaughtValues}
     \/ call \in {ToCall("sendNotification", <<p, r>>) :
                     p \in ParamsObjects, r \in FetchReplies}
     \/ call \in {ToCall("parseDateTimeInTimeZone", <<x, tz>>) :
                     x \in DatetimeStrings, tz \in TimeZones}
     \/ call \in {ToCall("shouldRunTask", <<task, clock, tz>>) :
                     task \in StoredTasks, clock \in Clocks, tz \in TimeZones}
     \/ call \in {ToCall("matchesCron", <<cron, t, tz>>) :
                     cron \in CronExpressions, t \in Instants, tz \in TimeZones}
     \/ call \in {ToCall("matchCronPart", <<field, v>>) :
                     field \in CronFields, v \in FieldValues}

\* the helper fn is to be called
Pending(fn) == call.fn = fn /\ ~call.done

\* the call once it has returned result
Returns(result) == [call EXCEPT !.done = TRUE, !.result = result]

callIsPermanentError ==
  /\ Pending("isPermanentError")
  /\ call' = Returns(isPermanentError(call.args[1]))
  /\ UNCHANGED <<store, armed, now, timeZone, hourCycle, issued, runs, okCount, last, batch, manual>>

callSendNotification ==
  /\ Pending("sendNotification")
  /\ call' = Returns(sendNotificationCall(call.args[1], call.args[2]))
  /\ UNCHANGED <<store, armed, now, timeZone, hourCycle, issued, runs, okCount, last, batch, manual>>

\* no fields: the formatter throws for an Invalid Date
NoParts ==
  [year |-> 0, month |-> 0, day |-> 0, hour |-> 0, minute |-> 0, second |-> 0,
   weekday |-> 0]

\* parseDateTimeInTimeZone, and getLocalTimeParts of what it returns
callParseDateTimeInTimeZone ==
  /\ Pending("parseDateTimeInTimeZone")
  /\ LET parsed == parseDateTimeInTimeZone(call.args[1], call.args[2])
     IN call' = Returns([parsed |-> parsed,
                         local |-> IF parsed.kind = "date"
                                     THEN getLocalTimeParts(parsed.t, call.args[2])
                                     ELSE NoParts])
  /\ UNCHANGED <<store, armed, now, timeZone, hourCycle, issued, runs, okCount, last, batch, manual>>

callShouldRunTask ==
  /\ Pending("shouldRunTask")
  /\ call' = Returns(shouldRunTask(call.args[1], call.args[2], call.args[3]))
  /\ UNCHANGED <<store, armed, now, timeZone, hourCycle, issued, runs, okCount, last, batch, manual>>

callMatchesCron ==
  /\ Pending("matchesCron")
  /\ call' = Returns(matchesCron(call.args[1], call.args[2], call.args[3]))
  /\ UNCHANGED <<store, armed, now, timeZone, hourCycle, issued, runs, okCount, last, batch, manual>>

callMatchCronPart ==
  /\ Pending("matchCronPart")
  /\ call' = Returns(matchCronPart(call.args[1], call.args[2]))
  /\ UNCHANGED <<store, armed, now, timeZone, hourCycle, issued, runs, okCount, last, batch, manual>>

NextFn ==
  \/ callIsPermanentError
  \/ callSendNotification
  \/ callParseDateTimeInTimeZone
  \/ callShouldRunTask
  \/ callMatchesCron
  \/ callMatchCronPart

SpecFn == InitFn /\ [][NextFn]_vars

\* A scheduler in which one repeat task has just been created and has not
\* run: "5 * * * *" or "*/2 * * * *", posted at StartTime, the alarm armed
\* where that create armed it.
NewRepeatCrons == {HourlyAtFive, EverySecondMinute}

NewRepeatTask(cron) == NewTask(1, Body("hi", "", Sched("repeat", NoDatetime, cron)), StartTime)

InitRepeat ==
  /\ batch = NoBatch
  /\ manual = NoBatch
  /\ hourCycle = "h23"
  /\ call = NoCall
  /\ timeZone \in TimeZones
  /\ now = StartTime
  /\ \E cron \in NewRepeatCrons :
        /\ store = putTask(NoTasks, 1, NewRepeatTask(cron))
        /\ armed = findEarliestRunTime(listAllTasks(store), now, timeZone)
  /\ issued = {1}
  /\ runs = 0
  /\ okCount = [i \in Ids |-> 0]
  /\ last = [op |-> "init", status |-> 0, at |-> StartTime, id |-> 0,
             ran |-> NoTasks, out |-> NoTasks,
             req |-> NoRequest, scheduledTime |-> Null, tasks |-> <<>>, logs |-> <<>>,
             sent |-> NoTasks, listFailed |-> <<FALSE, FALSE>>]

SpecRepeat == InitRepeat /\ [][Next]_vars

\* ------------------------------------------------- the cron search alone
\* getNextCronTimeAfter evaluated on a pattern, an instant and a zone, and
\* then on its own result.

\* "* * * * *", "*/5 * * * *", "1 * * * *", "0 9 * * *", "30 9 * * 1-5",
\* "0 9 * 1,3 *", one of three fields and one of six
ScanPatterns ==
  { EveryMinute,
    <<StarStep(5), Star, Star, Star, Star>>,
    HourlyAtOne,
    DailyAtNine,
    <<Num(30), Num(9), Star, Star, Range(1, 5)>>,
    <<Num(0), Num(9), Star, List({1, 3}), Star>>,
    ThreeFields,
    <<Star, Star, Star, Star, Star, Star>> }

\* the epoch (a task that never ran), StartTime with and without a
\* sub-minute part, just after midnight, and the last minute of a leap day
ScanAfters ==
  { 0, StartTime, StartTime + 1, DateUTC(2024, 1, 1, 0, 2, 0),
    DateUTC(2024, 2, 29, 23, 59, 0) }

\* "0 0 31 2 *": no February has a 31st
NeverInFebruary == <<Num(0), Num(0), Num(31), Num(2), Star>>

\* "0 0 1 1 *": once a year
Yearly == <<Num(0), Num(0), Num(1), Num(1), Star>>

\* searches that run through the whole year: a pattern no instant matches,
\* and a yearly one asked at its own instant of 2023, which is 525600
\* minutes before its instant of 2024, itself 527040 minutes before the next
YearScans ==
  { <<NeverInFebruary, StartTime>>, <<Yearly, DateUTC(2023, 1, 1, 0, 0, 0)>> }

\* the arguments of a call: pattern, after, zone, and the number of
\* applications that led to this after
InitScan ==
  /\ store = NoTasks
  /\ armed = Null
  /\ now = StartTime
  /\ timeZone = "UTC"
  /\ issued = {}
  /\ runs = 0
  /\ okCount = [i \in Ids |-> 0]
  /\ last = [op |-> "init", status |-> 0, at |-> StartTime, id |-> 0,
             ran |-> NoTasks, out |-> NoTasks,
             req |-> NoRequest, scheduledTime |-> Null, tasks |-> <<>>, logs |-> <<>>,
             sent |-> NoTasks, listFailed |-> <<FALSE, FALSE>>]
  /\ batch = NoBatch
  /\ manual = NoBatch
  /\ \/ /\ hourCycle \in HourCycles
        /\ call \in {ToCall("getNextCronTimeAfter", <<cron, after, tz, 0>>) :
                       cron \in ScanPatterns, after \in ScanAfters, tz \in TimeZones}
     \/ /\ hourCycle = "h23"
        /\ call \in {ToCall("getNextCronTimeAfter", <<ys[1], ys[2], "UTC", 0>>) :
                       ys \in YearScans}

callGetNextCronTimeAfter ==
  /\ Pending("getNextCronTimeAfter")
  /\ call' = Returns(getNextCronTimeAfter(call.args[1], call.args[2], call.args[3]))
  /\ UNCHANGED <<store, armed, now, timeZone, hourCycle, issued, runs, okCount, last, batch, manual>>

\* the result of the search becomes the after of the next search
callGetNextCronTimeAfterAgain ==
  /\ call.fn = "getNextCronTimeAfter"
  /\ call.done
  /\ call.args[4] + 1 < MaxChain
  /\ call' = ToCall("getNextCronTimeAfter",
                    <<call.args[1], call.result.t, call.args[3], call.args[4] + 1>>)
  /\ UNCHANGED <<store, armed, now, timeZone, hourCycle, issued, runs, okCount, last, batch, manual>>

NextScan == callGetNextCronTimeAfter \/ callGetNextCronTimeAfterAgain

SpecScan == InitScan /\ [][NextScan]_vars

TypeOK ==
  /\ DOMAIN store \subseteq issued \cup {0}
  /\ issued \subseteq Ids
  /\ armed.kind \in {"date", "null"}
  /\ \A i \in DOMAIN store : store[i].id = i

\* ----------------------------------------------------------------- claims
\* a step that is one alarm callback (runDue); in the state it leads to,
\* last.ran holds the due tasks as listed and last.out their outcomes
RunDueStep == runs' # runs

IsOnce(task) == task.schedule.type = "once"
IsRepeat(task) == task.schedule.type = "repeat"

\* the classification of an outcome, stated from the phrases of the spec
Succeeded(o) == o.ok
FailedPermanently(o) ==
  /\ ~o.ok
  /\ \/ Includes(o.message, <<"token", "is", "invalid">>)
     \/ Includes(o.message, <<"user", "key", "is", "invalid">>)
     \/ Includes(o.message, <<"application", "token", "is", "invalid">>)
FailedTransiently(o) == ~o.ok /\ ~FailedPermanently(o)

\* C1: a once task is delivered successfully at most once; at the end of the
\* runDue in which its dispatch succeeded or failed permanently it is absent
\* from the store, and a task that has left the store never comes back.
C1_OnceDeliveredOnceThenGone ==
  [][ /\ RunDueStep =>
           \A i \in DOMAIN last'.ran :
              IsOnce(last'.ran[i]) =>
                 /\ okCount'[i] <= 1
                 /\ (Succeeded(last'.out[i]) \/ FailedPermanently(last'.out[i]))
                       => i \notin DOMAIN store'
      /\ \A i \in issued : i \notin DOMAIN store => i \notin DOMAIN store' ]_vars

\* a once task was delivered after an earlier transient failure and is gone
C1_Witness ==
  /\ last.op = "alarm"
  /\ \E i \in DOMAIN last.ran :
        /\ IsOnce(last.ran[i])
        /\ Len(last.ran[i].executionHistory) > 0
        /\ Succeeded(last.out[i])
        /\ okCount[i] = 1
        /\ i \notin DOMAIN store

\* C2: after runDue(now) every repeat task that was due and whose delivery
\* succeeded is still stored, its executionHistory is the previous history
\* plus exactly one success entry, and its lastRun is now.
C2_RepeatSuccessRecorded ==
  last.op = "alarm" =>
    \A i \in DOMAIN last.ran :
       (IsRepeat(last.ran[i]) /\ Succeeded(last.out[i])) =>
          /\ i \in DOMAIN store
          /\ LET before == last.ran[i].executionHistory
                 after == store[i].executionHistory
             IN /\ Len(before) < HistoryLimit => Len(after) = Len(before) + 1
                /\ SubSeq(after, 1, Len(after) - 1)
                     = SubSeq(before, Len(before) - Len(after) + 2, Len(before))
                /\ after[Len(after)].status = "success"
                /\ after[Len(after)].executedAt = last.at
          /\ store[i].lastRun = RanAt(last.at)

\* a repeat task with an earlier entry was delivered again
C2_Witness ==
  /\ last.op = "alarm"
  /\ \E i \in DOMAIN last.ran :
        /\ IsRepeat(last.ran[i])
        /\ Succeeded(last.out[i])
        /\ Len(last.ran[i].executionHistory) = 1
        /\ i \in DOMAIN store
        /\ Len(store[i].executionHistory) = 2

\* C3: a due task whose dispatch fails with a permanent error is absent from
\* the store at the end of that runDue, for a once and for a repeat task.
C3_PermanentFailureEvicts ==
  last.op = "alarm" =>
    \A i \in DOMAIN last.ran :
       FailedPermanently(last.out[i]) => i \notin DOMAIN store

\* one runDue evicted a once task and a repeat task
C3_Witness ==
  /\ last.op = "alarm"
  /\ \E i, j \in DOMAIN last.ran :
        /\ IsOnce(last.ran[i]) /\ IsRepeat(last.ran[j])
        /\ FailedPermanently(last.out[i]) /\ FailedPermanently(last.out[j])
        /\ last.out[i] # last.out[j]
        /\ store = NoTasks

\* C4: a due task whose dispatch fails with a transient error stays in the
\* store at the end of that runDue with lastRun = now and exactly one failed
\* entry carrying the error text appended, for once and repeat tasks alike.
C4_TransientFailureKept ==
  last.op = "alarm" =>
    \A i \in DOMAIN last.ran :
       FailedTransiently(last.out[i]) =>
          /\ i \in DOMAIN store
          /\ store[i].lastRun = RanAt(last.at)
          /\ LET before == last.ran[i].executionHistory
                 after == store[i].executionHistory
             IN /\ Len(before) < HistoryLimit => Len(after) = Len(before) + 1
                /\ SubSeq(after, 1, Len(after) - 1)
                     = SubSeq(before, Len(before) - Len(after) + 2, Len(before))
                /\ after[Len(after)].status = "failed"
                /\ after[Len(after)].error = last.out[i].message
                /\ after[Len(after)].executedAt = last.at

\* one runDue kept a once task and a repeat task after transient failures
C4_Witness ==
  /\ last.op = "alarm"
  /\ \E i, j \in DOMAIN last.ran :
        /\ IsOnce(last.ran[i]) /\ IsRepeat(last.ran[j])
        /\ FailedTransiently(last.out[i]) /\ FailedTransiently(last.out[j])
        /\ {i, j} \subseteq DOMAIN store
        /\ store[i].executionHistory[1].error = ErrTransient

\* C5: runDue removes a repeat task only if its dispatch in that runDue
\* failed permanently: not due, delivered, or failed transiently, a repeat
\* task present before runDue is present after it.
C5_RepeatOnlyEvictedOnPermanent ==
  [][ RunDueStep =>
        \A i \in DOMAIN store :
           (IsRepeat(store[i]) /\ i \notin DOMAIN store') =>
              (i \in DOMAIN last'.ran /\ FailedPermanently(last'.out[i])) ]_vars

\* a repeat task that failed transiently in an earlier runDue was not due
\* in the last runDue, which dispatched another task, and is still stored
C5_Witness ==
  /\ last.op = "alarm"
  /\ last.ran # NoTasks
  /\ \E j \in DOMAIN store :
        /\ IsRepeat(store[j])
        /\ j \notin DOMAIN last.ran
        /\ Len(store[j].executionHistory) = 1
        /\ store[j].executionHistory[1].status = "failed"

\* C6: every stored executionHistory has at most 100 entries in execution
\* order, and a run stores the most recent (up to 100) entries of the
\* previous history followed by the new entry: what is dropped is the oldest.
C6_HistoryKeepsMostRecent ==
  /\ \A i \in DOMAIN store :
        LET h == store[i].executionHistory
        IN /\ Len(h) <= 100
           /\ \A k \in 1..(Len(h) - 1) : h[k].executedAt <= h[k + 1].executedAt
  /\ last.op = "alarm" =>
        \A i \in DOMAIN last.ran \cap DOMAIN store :
           LET before == last.ran[i].executionHistory
               after == store[i].executionHistory
               dropped == Len(before) + 1 - Len(after)
           IN /\ dropped = (IF Len(before) + 1 > 100 THEN Len(before) + 1 - 100 ELSE 0)
              /\ \A k \in 1..(Len(after) - 1) : after[k] = before[k + dropped]
              /\ after[Len(after)].executedAt = last.at
              /\ after[Len(after)].status
                   = (IF last.out[i].ok THEN "success" ELSE "failed")

\* an entry was appended to a history of 100 entries and the oldest dropped
C6_Witness ==
  /\ last.op = "alarm"
  /\ \E i \in DOMAIN last.ran \cap DOMAIN store :
        /\ Len(last.ran[i].executionHistory) = 100
        /\ Len(store[i].executionHistory) = 100
        /\ store[i].executionHistory[1] = last.ran[i].executionHistory[2]
        /\ store[i].executionHistory[100].executedAt = last.at

\* C7 as stated: every persisted once task has at most one entry in its
\* executionHistory.
C7_OnceAtMostOneEntry ==
  \A i \in DOMAIN store : IsOnce(store[i]) => Len(store[i].executionHistory) <= 1

\* C7 amended: a persisted once task's executionHistory holds only failed
\* entries of transient failures, at most one per runDue so far, the last of
\* them at lastRun; a success or a permanent failure leaves no stored entry.
C7_OnceHistoryOnlyTransientFailures ==
  \A i \in DOMAIN store :
     IsOnce(store[i]) =>
        LET h == store[i].executionHistory
        IN /\ Len(h) <= runs
           /\ \A k \in 1..Len(h) :
                 /\ h[k].status = "failed"
                 /\ ~Includes(h[k].error, <<"token", "is", "invalid">>)
                 /\ ~Includes(h[k].error, <<"user", "key", "is", "invalid">>)
           /\ store[i].lastRun.set <=> Len(h) > 0
           /\ Len(h) > 0 => h[Len(h)].executedAt = store[i].lastRun.t

\* a once task is stored with two failed entries
C7_Witness ==
  \E i \in DOMAIN store :
     /\ IsOnce(store[i])
     /\ Len(store[i].executionHistory) = 2
     /\ store[i].executionHistory[2].status = "failed"

\* the next-due instant calculateNextRunTime gives a stored task
NextDue(task, clock) == calculateNextRunTime(task.schedule, clock, timeZone)

\* C8 as stated: after a once task's dispatch fails transiently the timer
\* armed at the end of that runDue is not armed on account of that task: if
\* a timer is armed, it is at the next-due instant of another stored task.
C8_NoTimerForFailedOnce ==
  (last.op = "alarm" /\ last.status = 200) =>
     \A i \in DOMAIN last.ran :
        (IsOnce(last.ran[i]) /\ FailedTransiently(last.out[i]) /\ armed.kind = "date") =>
           \E j \in DOMAIN store \ {i} : NextDue(store[j], last.at) = armed

\* C8 amended: after a once task's dispatch fails transiently the task is
\* stored and still due, and a runDue that arms its timer arms it at an
\* instant not later than the task's datetime, which the clock has reached.
C8_FailedOnceIsRearmed ==
  last.op = "alarm" =>
     \A i \in DOMAIN last.ran :
        (IsOnce(last.ran[i]) /\ FailedTransiently(last.out[i])) =>
           /\ i \in DOMAIN store
           /\ shouldRunTask(store[i], last.at, timeZone)
           /\ shouldRunTask(store[i], now, timeZone)
           /\ last.status = 200 =>
                 /\ armed.kind = "date"
                 /\ armed.t <= NextDue(store[i], last.at).t
                 /\ armed.t <= last.at

\* a once task that is alone in the store failed transiently a second time,
\* dispatched by the timer armed after its first failure, and the timer is
\* armed at its datetime again
C8_Witness ==
  /\ last.op = "alarm" /\ last.status = 200
  /\ \E i \in DOMAIN last.ran :
        /\ IsOnce(last.ran[i])
        /\ FailedTransiently(last.out[i])
        /\ Len(last.ran[i].executionHistory) = 1
        /\ DOMAIN store = {i}
        /\ armed = NextDue(store[i], last.at)
        /\ armed.t <= last.at

\* the valid next-due instants of the stored tasks
DueInstants(clock) ==
  {NextDue(store[i], clock).t : i \in {j \in DOMAIN store : NextDue(store[j], clock).kind = "date"}}

\* the operation that ran last was an accepted create, a delete or a runDue
AfterCreate == last.op = "create" /\ last.status # 400
AfterDelete == last.op = "delete"
AfterRunDue == last.op = "alarm"

\* C9 as stated: after every create, delete and runDue the armed timer is
\* the minimum next-due instant of the stored tasks (none armed without one).
C9_TimerIsMinimumNextDue ==
  (AfterCreate \/ AfterDelete \/ AfterRunDue) =>
     IF DueInstants(last.at) = {}
       THEN armed = Null
       ELSE /\ armed.kind = "date"
            /\ armed.t \in DueInstants(last.at)
            /\ \A t \in DueInstants(last.at) : armed.t <= t

\* C10 as stated: after every create and every runDue, if a stored task has
\* a next-due instant, a timer is armed, not later than any of them.
C10_NoTaskStranded ==
  (AfterCreate \/ AfterRunDue) =>
     (DueInstants(last.at) # {} =>
         /\ armed.kind = "date"
         /\ \A t \in DueInstants(last.at) : armed.t <= t)

\* C11 as stated: when runDue finishes and no task survives, no timer is
\* armed; when tasks survive, the timer is armed at the earliest next-due
\* instant of the surviving tasks.
C11_TimerAfterRunDue ==
  AfterRunDue =>
     IF store = NoTasks
       THEN armed = Null
       ELSE /\ armed.kind = "date"
            /\ \E i \in DOMAIN store : NextDue(store[i], last.at) = armed
            /\ \A i \in DOMAIN store :
                  NextDue(store[i], last.at).kind = "date"
                     => armed.t <= NextDue(store[i], last.at).t

\* a step that serves one POST /schedule; in the state it leads to, last.req
\* is the body and last.status the status of the response
CreateStep == last' # last /\ last'.op = "create"

\* the schedule of a body lacks the field its declared type requires
LacksRequiredField(schedule) ==
  \/ schedule.type = "once" /\ schedule.datetime.kind = "absent"
  \/ schedule.type = "repeat" /\ schedule.cron = <<>>

\* C12 as stated: create fails with a validation error exactly when the
\* request has neither message nor aiPrompt, or has no schedule, or its
\* schedule lacks the field required by its type; on such a failure the
\* store and the armed timer are unchanged.
C12_RejectedExactlyWhenInvalid ==
  [][ CreateStep =>
        /\ last'.status = 400 <=>
              \/ last'.req.message = "" /\ last'.req.aiPrompt = ""
              \/ last'.req.schedule.type = "absent"
              \/ LacksRequiredField(last'.req.schedule)
        /\ last'.status = 400 => (store' = store /\ armed' = armed) ]_vars

\* C12 amended: create fails with a validation error exactly when the
\* request has no message (with or without an aiPrompt), or has no schedule,
\* or its schedule lacks the field required by its type; on such a failure
\* no id is issued and the store and the armed timer are unchanged.
C12_RejectedExactlyWhenNoMessageOrInvalid ==
  [][ CreateStep =>
        /\ last'.status = 400 <=>
              \/ last'.req.message = ""
              \/ last'.req.schedule.type = "absent"
              \/ LacksRequiredField(last'.req.schedule)
        /\ last'.status = 400 =>
              (store' = store /\ armed' = armed /\ issued' = issued) ]_vars

\* a request with an aiPrompt and no message was rejected while two tasks
\* were stored and the timer armed
C12_Witness ==
  /\ last.op = "create" /\ last.status = 400
  /\ last.req.message = "" /\ last.req.aiPrompt # ""
  /\ ~LacksRequiredField(last.req.schedule)
  /\ Cardinality(DOMAIN store) = 2
  /\ armed.kind = "date"

\* the instant a datetime string denotes in a zone, stated from its written
\* fields: with a designator the fields are read at the written offset,
\* without one they are the wall-clock fields of the instant in the zone
Denotes(value, tz, t) ==
  IF value.kind = "zoned"
    THEN t = DateUTC(value.y, value.mo, value.d, value.h, value.mi, value.s)
               - value.off * MinuteTicks
    ELSE /\ value.kind = "naive"
         /\ LET parts == getLocalTimeParts(t, tz)
            IN <<parts.year, parts.month, parts.day, parts.hour, parts.minute, parts.second>>
                 = <<value.y, value.mo, value.d, value.h, value.mi, value.s>>

\* t is the first of the instants clock + 1 min, clock + 2 min, ... (one
\* hour of them) that matches the cron pattern in the zone
FirstMatchAfter(cron, clock, tz, t) ==
  \E k \in 1..60 :
     /\ t = clock + k * MinuteTicks
     /\ matchesCron(cron, t, tz)
     /\ \A j \in 1..(k - 1) : ~matchesCron(cron, clock + j * MinuteTicks, tz)

\* C13: a successful create adds exactly one task under an id no stored task
\* has, with createdAt = now and no lastRun or executionHistory, leaves every
\* other task unchanged, and returns that id with scheduledTime the new
\* task's own next-due instant: the instant of its datetime for once, the
\* first cron match after now for repeat.
C13_CreateAddsOneTask ==
  [][ (CreateStep /\ last'.status = 201) =>
        LET id == last'.id
            sch == last'.req.schedule
        IN /\ id \notin DOMAIN store
           /\ DOMAIN store' = DOMAIN store \cup {id}
           /\ \A j \in DOMAIN store : store'[j] = store[j]
           /\ store'[id].id = id
           /\ store'[id].message = last'.req.message
           /\ store'[id].schedule = sch
           /\ store'[id].createdAt = now
           /\ ~store'[id].lastRun.set
           /\ store'[id].executionHistory = <<>>
           /\ (sch.type = "once" /\ sch.datetime.kind \in {"naive", "zoned"}) =>
                 /\ last'.scheduledTime.kind = "date"
                 /\ Denotes(sch.datetime, timeZone, last'.scheduledTime.t)
           /\ (sch.type = "repeat" /\ Len(sch.cron) = 5) =>
                 /\ last'.scheduledTime.kind = "date"
                 /\ FirstMatchAfter(sch.cron, now, timeZone, last'.scheduledTime.t) ]_vars

\* a task was created while another task with an earlier next-due instant
\* was stored: the response carries the new task's instant, the timer the
\* other one's
C13_Witness ==
  /\ last.op = "create" /\ last.status = 201
  /\ last.id \in DOMAIN store
  /\ last.scheduledTime.kind = "date"
  /\ armed.kind = "date"
  /\ armed.t < last.scheduledTime.t
  /\ \E j \in DOMAIN store \ {last.id} : NextDue(store[j], last.at) = armed

\* C14 as stated: every persisted task has a schedule whose type is once or
\* repeat, with datetime present if and only if the type is once and cron
\* present if and only if the type is repeat.
C14_ScheduleIsTaggedUnion ==
  \A i \in DOMAIN store :
     LET sch == store[i].schedule
     IN /\ sch.type \in {"once", "repeat"}
        /\ sch.datetime.kind # "absent" <=> sch.type = "once"
        /\ sch.cron # <<>> <=> sch.type = "repeat"

\* a step that serves one DELETE /tasks/:id
DeleteStep == last' # last /\ last'.op = "delete"

\* C15: delete(id) always succeeds and afterwards no task with that id is
\* stored; every other task is stored as it was, and deleting an id that is
\* not stored leaves the store unchanged, so a second delete(id) changes
\* nothing.
C15_DeleteRemovesOnlyThatTask ==
  [][ DeleteStep =>
        LET id == last'.id
        IN /\ last'.status = 200
           /\ id \notin DOMAIN store'
           /\ DOMAIN store' = DOMAIN store \ {id}
           /\ \A j \in DOMAIN store' : store'[j] = store[j]
           /\ id \notin DOMAIN store => store' = store ]_vars

\* one of two created tasks was deleted before any alarm ran and the other
\* one is still stored
C15_Witness ==
  /\ last.op = "delete" /\ last.status = 200
  /\ runs = 0
  /\ Cardinality(issued) = 2
  /\ DOMAIN store = issued \ {last.id}
  /\ last.id \in issued

Appended(before, after) ==
  /\ Len(after) = (IF Len(before) < HistoryLimit THEN Len(before) + 1 ELSE HistoryLimit)
  /\ \A k \in 1..(Len(after) - 1) : after[k] = before[k + Len(before) + 1 - Len(after)]

\* C17 as stated: whatever the outcomes of the deliveries of one runDue, the
\* runDue completes normally, each due task is recorded or evicted according
\* to its own outcome, and the timer is armed from the surviving tasks.
C17_NoFailurePropagates ==
  AfterRunDue =>
     /\ last.status = 200
     /\ \A i \in DOMAIN last.ran :
           IF FailedPermanently(last.out[i]) \/ (Succeeded(last.out[i]) /\ IsOnce(last.ran[i]))
             THEN i \notin DOMAIN store
             ELSE /\ i \in DOMAIN store
                  /\ Appended(last.ran[i].executionHistory, store[i].executionHistory)
                  /\ store[i].executionHistory[Len(store[i].executionHistory)].status
                        = (IF Succeeded(last.out[i]) THEN "success" ELSE "failed")
     /\ IF DueInstants(last.at) = {}
          THEN armed = Null
          ELSE armed.kind = "date" /\ \A t \in DueInstants(last.at) : armed.t <= t

\* the datetime of a once task can be parsed to an instant
Parseable(task) == IsOnce(task) /\ task.schedule.datetime.kind \in {"naive", "zoned"}

\* C18 as stated, in the form a finite run refutes: a once task with a
\* parseable datetime T is created with a 201 response carrying
\* scheduledTime T; as long as it is stored a timer is armed at an instant
\* not later than T, so that a runDue at some now >= T follows; and a runDue
\* at now >= T dispatches it and, when the delivery succeeds, removes it.
C18_OnceDeliveredAndRemoved ==
  /\ \A i \in DOMAIN store :
        Parseable(store[i]) =>
           LET T == NextDue(store[i], now)
           IN /\ armed.kind = "date"
              /\ armed.t <= T.t
              /\ (last.op = "create" /\ last.id = i) =>
                    (last.status = 201 /\ last.scheduledTime = T)
              /\ (AfterRunDue /\ last.at >= T.t) => i \in DOMAIN last.ran
  /\ AfterRunDue =>
        \A i \in DOMAIN last.ran :
           (Parseable(last.ran[i]) /\ Succeeded(last.out[i])) => i \notin DOMAIN store

\* the minute boundaries the clock reaches in a behaviour
Minutes == {StartTime + k * MinuteTicks : k \in 0..(MaxClock \div TicksPerMinute)}

\* the dispatches of a stored task at an instant of [from, to), read from
\* its executionHistory, to which every dispatch that keeps the task adds
\* one entry
DispatchesIn(task, from, to) ==
  {k \in 1..Len(task.executionHistory) :
      /\ task.executionHistory[k].executedAt >= from
      /\ task.executionHistory[k].executedAt < to}

\* C19 as stated, with the timer firing as soon as its armed instant is
\* reached: for a stored repeat task, every cron-matching minute after its
\* creation whose next matching minute the clock has reached holds exactly
\* one dispatch of the task, at or after that minute and before the next.
C19_RepeatFiresOnEveryMatch ==
  \A i \in DOMAIN store :
     (IsRepeat(store[i]) /\ Len(store[i].schedule.cron) = 5) =>
        \A m \in Minutes :
           (m > store[i].createdAt /\ matchesCron(store[i].schedule.cron, m, timeZone)) =>
              LET following == getNextCronTimeAfter(store[i].schedule.cron, m, timeZone).t
              IN following <= now =>
                    Cardinality(DispatchesIn(store[i], m, following)) = 1

\* a repeat task whose cron does not have exactly 5 fields
Malformed(task) == IsRepeat(task) /\ Len(task.schedule.cron) # 5

\* C20 as stated: a repeat task whose cron is malformed never fires: no
\* runDue dispatches it, and no runDue raises an error because of it.
C20_MalformedCronNeverFires ==
  AfterRunDue =>
     /\ \A i \in DOMAIN last.ran : ~Malformed(last.ran[i])
     /\ (\E i \in DOMAIN store : Malformed(store[i])) => last.status = 200

\* a helper has returned: call holds its arguments and its result
Returned(fn) == call.fn = fn /\ call.done

\* the text names invalid delivery credentials
NamesInvalidCredentials(text) ==
  \E phrase \in { <<"token", "is", "invalid">>,
                  <<"user", "key", "is", "invalid">>,
                  <<"application", "token", "is", "invalid">> } :
     Includes(text, phrase)

\* C21: isPermanentError(err) is true exactly when err is an Error whose
\* message contains 'token is invalid', 'user key is invalid' or
\* 'application token is invalid'; every other Error and every value that
\* is not an Error is classified transient (false).
C21_PermanentIffCredentialError ==
  Returned("isPermanentError") =>
    LET err == call.args[1]
    IN call.result <=> (err.isError /\ NamesInvalidCredentials(err.message))

\* a value that is not an Error, carrying the credential text, was
\* classified transient
C21_Witness ==
  /\ Returned("isPermanentError")
  /\ ~call.args[1].isError
  /\ NamesInvalidCredentials(call.args[1].message)
  /\ ~call.result

\* an Error naming an invalid user key was classified permanent
C21_WitnessPermanent ==
  /\ Returned("isPermanentError")
  /\ call.args[1] = Thrown(<<"user", "key", "is", "invalid">>)
  /\ call.result

\* C22: one call of send makes exactly one POST to the configured endpoint;
\* it returns the response when the response is a 2xx one, fails with an
\* error carrying the status and the body of the response when it is not,
\* and fails with the transport's error when the transport fails.
C22_OnePostAndFailureOnNonSuccess ==
  Returned("sendNotification") =>
    LET reply == call.args[2]
        fetched == call.result.fetched
        outcome == call.result.outcome
    IN /\ Len(fetched) = 1
       /\ fetched[1].url = ApiUrl
       /\ fetched[1].method = "POST"
       /\ reply.kind = "response" /\ reply.status \in 200..299 =>
            /\ outcome.ok
            /\ outcome.response = "HTTP " \o ToString(reply.status)
       /\ reply.kind = "response" /\ reply.status \notin 200..299 =>
            /\ ~outcome.ok /\ outcome.isError
            /\ Includes(outcome.message, <<ToString(reply.status)>>)
            /\ Includes(outcome.message, reply.body)
       /\ reply.kind = "rejects" =>
            /\ ~outcome.ok /\ outcome.isError
            /\ outcome.message = reply.body

\* a 429 response with a body made the call fail with both in the error
C22_Witness ==
  /\ Returned("sendNotification")
  /\ call.args[2] = Responds(429, <<"temporary", "failure">>)
  /\ call.result.outcome = Thrown(<<"Pushover", "API", "error:", "429", "-",
                                     "temporary", "failure">>)

\* the transport failed and the call failed with it
C22_WitnessTransport ==
  /\ Returned("sendNotification")
  /\ call.args[2].kind = "rejects"
  /\ ~call.result.outcome.ok

\* the keys of the form that sendNotification fills in itself
RequiredFields == {"user", "token", "message"}

\* C23: in every delivery made by runDue the outbound user and token are
\* the configured credentials and the outbound message is the task's own
\* message, whatever keys the task's pushover object has; every other key
\* of it that holds a value is passed through with that value.
C23_RequiredFieldsNotOverridden ==
  [][RunDueStep =>
       \A i \in DOMAIN last'.ran :
          LET task == last'.ran[i]
              form == last'.sent[i]
          IN /\ form["user"] = UserKey
             /\ form["token"] = ApiToken
             /\ form["message"] = task.message
             /\ \A k \in DOMAIN task.pushover \ RequiredFields :
                   task.pushover[k] \notin {Undefined, JsNull} =>
                     k \in DOMAIN form /\ form[k] = task.pushover[k]]_vars

\* the same without the message: user and token are the configured
\* credentials and every other key but message is passed through
C23_CredentialsNotOverridden ==
  [][RunDueStep =>
       \A i \in DOMAIN last'.ran :
          LET task == last'.ran[i]
              form == last'.sent[i]
          IN /\ form["user"] = UserKey
             /\ form["token"] = ApiToken
             /\ \A k \in DOMAIN task.pushover \ RequiredFields :
                   task.pushover[k] \notin {Undefined, JsNull} =>
                     k \in DOMAIN form /\ form[k] = task.pushover[k]]_vars

\* a task whose pushover object has a message key was delivered
C23_Reached ==
  /\ last.op = "alarm"
  /\ \E i \in DOMAIN last.ran :
        /\ "message" \in DOMAIN last.ran[i].pushover
        /\ last.sent[i]["message"] = "from pushover"

\* a runDue step whose listing of the tasks to run failed
ListFailedStep == RunDueStep /\ last'.listFailed[1]

\* C24: a store failure during listAll does not propagate: a runDue in
\* which the listing fails dispatches nothing, modifies and deletes no task
\* and completes without error, and the tasks are still in the store.
C24_ListFailureIsAnEmptyCycle ==
  [][ListFailedStep =>
       /\ DOMAIN last'.ran = {}
       /\ store' = store
       /\ last'.status = 200]_vars

\* the same for a runDue in which every listing fails
C24_PersistentListFailureIsAnEmptyCycle ==
  [][ListFailedStep /\ last'.listFailed[2] =>
       /\ DOMAIN last'.ran = {}
       /\ store' = store
       /\ armed' = Null
       /\ last'.status = 200]_vars

\* the same, the error apart, when only the first listing fails
C24_NothingDispatchedNothingChanged ==
  [][ListFailedStep => DOMAIN last'.ran = {} /\ store' = store]_vars

\* a runDue whose listing failed while a due task was in the store
C24_Reached ==
  /\ last.op = "alarm"
  /\ last.listFailed[1]
  /\ \E i \in DOMAIN store : shouldRunTask(store[i], last.at, timeZone)

\* the fields read back are the year, month, day, hour and minute written
\* in the naive string x
ReadsBack(x, local) ==
  /\ local.year = x.y /\ local.month = x.mo /\ local.day = x.d
  /\ local.hour = x.h /\ local.minute = x.mi

\* C25: for a naive string x and a timezone tz the local fields of
\* toInstant(x, tz) in tz are the year, month, day, hour and minute written
\* in x; for a string with a zone designator toInstant returns the same
\* instant whatever tz is.
C25_NaiveRoundTripAndZonedAbsolute ==
  Returned("parseDateTimeInTimeZone") =>
    LET x == call.args[1]
    IN /\ x.kind = "naive" =>
            /\ call.result.parsed.kind = "date"
            /\ ReadsBack(x, call.result.local)
       /\ x.kind = "zoned" =>
            \A tz \in TimeZones : parseDateTimeInTimeZone(x, tz) = call.result.parsed

\* the same on an engine that writes the hour after midnight as "00"
C25_RoundTripUnderH23 ==
  hourCycle = "h23" => C25_NaiveRoundTripAndZonedAbsolute

\* the part about strings with a designator, on every engine
C25_ZonedAbsolute ==
  Returned("parseDateTimeInTimeZone") /\ call.args[1].kind = "zoned" =>
    \A tz \in TimeZones : parseDateTimeInTimeZone(call.args[1], tz) = call.result.parsed

\* a naive string of the hour after midnight was parsed to the day before
C25_Reached ==
  /\ Returned("parseDateTimeInTimeZone")
  /\ call.args = << Naive(2024, 1, 1, 0, 30, 0), "UTC" >>
  /\ call.result.parsed = DateOf(DateUTC(2023, 12, 31, 0, 30, 0))

\* the instant is one, and clock has reached it
HasReached(clock, instant) == instant.kind = "date" /\ clock >= instant.t

\* C26: shouldRun(task, now) is true for a once task exactly when
\* now >= toInstant(task.datetime), for a repeat task exactly when
\* now >= nextAfter(task.cron, lastRun), lastRun being the epoch for a task
\* that has never run, and false for every other schedule type.
C26_ShouldRunIffReached ==
  Returned("shouldRunTask") =>
    LET task == call.args[1]
        clock == call.args[2]
        tz == call.args[3]
        lastRun == IF task.lastRun.set THEN task.lastRun.t ELSE 0
    IN /\ IsOnce(task) =>
            (call.result <=>
               HasReached(clock, parseDateTimeInTimeZone(task.schedule.datetime, tz)))
       /\ IsRepeat(task) =>
            (call.result <=>
               HasReached(clock, getNextCronTimeAfter(task.schedule.cron, lastRun, tz)))
       /\ ~IsOnce(task) /\ ~IsRepeat(task) => ~call.result

\* a once task was asked about at the very instant of its datetime and is
\* due
C26_Witness ==
  /\ Returned("shouldRunTask")
  /\ IsOnce(call.args[1])
  /\ parseDateTimeInTimeZone(call.args[1].schedule.datetime, call.args[3])
       = DateOf(call.args[2])
  /\ call.result

\* a repeat task that has never run is due, and one that ran within the
\* minute is not
C26_WitnessRepeat ==
  /\ Returned("shouldRunTask")
  /\ IsRepeat(call.args[1])
  /\ call.args[1].schedule.cron = EveryMinute
  /\ \/ ~call.args[1].lastRun.set /\ call.result
     \/ call.args[1].lastRun = RanAt(call.args[2]) /\ ~call.result

\* the steps of one alarm callback
BeginStep == ~batch.active /\ batch'.active
DispatchStep == batch.active /\ batch'.active /\ batch' # batch
EndStep == batch.active /\ ~batch'.active

\* the store holds the post-run update of the task listed as task, for the
\* outcome o of its delivery at clock: the task is gone, or it is there with
\* lastRun at clock and o as the last entry of its history
PostRunUpdate(s, task, o, clock) ==
  \/ task.id \notin DOMAIN s
  \/ /\ s[task.id].lastRun = RanAt(clock)
     /\ s[task.id].executionHistory # <<>>
     /\ LET h == s[task.id].executionHistory
        IN h[Len(h)] = ExecutionLog(clock, o)

\* C27: one runDue attempts a dispatch for every task that is due when it
\* starts and for no other task, and for each of them once; whatever the
\* outcome of one delivery, that task gets its post-run update, the other
\* tasks of the batch stay to be dispatched, and the callback ends only
\* when each of them has been.
C27_EveryDueTaskDispatchedOnce ==
  [][/\ BeginStep =>
          /\ DOMAIN batch'.tasks =
               {i \in DOMAIN store : shouldRunTask(store[i], now, timeZone)}
          /\ batch'.pending = DOMAIN batch'.tasks
          /\ batch'.out = NoTasks
     /\ DispatchStep =>
          \E i \in DOMAIN batch.tasks \ DOMAIN batch.out :
             /\ DOMAIN batch'.out = DOMAIN batch.out \cup {i}
             /\ batch'.pending = batch.pending \ {i}
             /\ batch'.pending = DOMAIN batch.tasks \ DOMAIN batch'.out
             /\ PostRunUpdate(store', batch.tasks[i], batch'.out[i], now)
             /\ \A j \in DOMAIN batch.out : batch'.out[j] = batch.out[j]
     /\ EndStep => DOMAIN batch.out = DOMAIN batch.tasks]_vars

\* a batch of two tasks has ended, one delivery failed and the other did not
C27_Witness ==
  /\ last.op = "alarm"
  /\ ~batch.active
  /\ \E i, j \in DOMAIN last.ran : ~last.out[i].ok /\ last.out[j].ok

\* C28: within one runDue the timer is armed only in the step that follows
\* the batch: by then every dispatch has completed and its put or delete
\* has been applied, so the listing the timer is computed from holds no due
\* task of this cycle that is still to be processed.
C28_TimerArmedAfterBatch ==
  [][/\ BeginStep => armed' = Null
     /\ DispatchStep => armed' = armed
     /\ EndStep =>
          /\ batch.pending = {}
          /\ DOMAIN batch.out = DOMAIN batch.tasks
          /\ last'.status = 200 =>
               armed' = LET nextRun == findEarliestRunTime(listAllTasks(store), now, timeZone)
                        IN IF Truthy(nextRun) THEN nextRun ELSE armed]_vars

\* a batch of two tasks has ended and the timer is armed
C28_Witness ==
  /\ last.op = "alarm"
  /\ last.status = 200
  /\ ~batch.active
  /\ Cardinality(DOMAIN last.ran) = 2
  /\ armed.kind = "date"

\* the calendar fields of the instant t on a wall clock of the zone tz: the
\* hour runs from 0 to 23, the weekday from 0 (Sunday) to 6 (Saturday)
WallClockOf(t, tz) ==
  LET loc == t + ZoneOffsetMinutes(tz) * MinuteTicks
      civ == CivilFromDays(loc \div DayTicks)
  IN [month |-> civ.month, day |-> civ.day,
      hour |-> (loc % DayTicks) \div HourTicks,
      minute |-> (loc % HourTicks) \div MinuteTicks,
      weekday |-> ((loc \div DayTicks) + 4) % 7]

\* each of the five fields matches its calendar field
FieldsMatch(cron, fields) ==
  /\ matchCronPart(cron[1], fields.minute)
  /\ matchCronPart(cron[2], fields.hour)
  /\ matchCronPart(cron[3], fields.day)
  /\ matchCronPart(cron[4], fields.month)
  /\ matchCronPart(cron[5], fields.weekday)

\* C29: matches(pattern, t, tz) is true exactly when the pattern has five
\* fields and the minute, hour, day of the month, month and weekday
\* (0 = Sunday) of t in the zone tz each match their field; the instant
\* counts only through its local fields, so one instant can match in one
\* zone and not in another.
C29_MatchesIffFiveFieldsMatch ==
  Returned("matchesCron") =>
    LET cron == call.args[1]
        t == call.args[2]
        tz == call.args[3]
    IN /\ call.result <=> (Len(cron) = 5 /\ FieldsMatch(cron, WallClockOf(t, tz)))
       /\ \A t2 \in Instants, tz2 \in TimeZones :
            getLocalTimeParts(t2, tz2) = getLocalTimeParts(t, tz) =>
              matchesCron(cron, t2, tz2) = call.result

\* the same with the fields as getLocalTimeParts returns them, on every
\* engine
C29_MatchesThroughLocalParts ==
  Returned("matchesCron") =>
    LET cron == call.args[1]
    IN call.result <=>
         (Len(cron) = 5
            /\ FieldsMatch(cron, getLocalTimeParts(call.args[2], call.args[3])))

\* the claim on an engine that writes the hour after midnight as "00"
C29_MatchesUnderH23 ==
  hourCycle = "h23" => C29_MatchesIffFiveFieldsMatch

\* "15 0 * * *" did not match 00:15 of the zone
C29_Reached ==
  /\ Returned("matchesCron")
  /\ call.args = << <<Num(15), Num(0), Star, Star, Star>>,
                    DateUTC(2024, 1, 1, 0, 15, 0), "UTC" >>
  /\ ~call.result

\* one instant matched in its zone and does not match in another
C29_ReachedZones ==
  /\ Returned("matchesCron")
  /\ call.result
  /\ \E tz \in TimeZones : ~matchesCron(call.args[1], call.args[2], tz)

\* d is a multiple of n, for the differences of two field values
MultipleOf(d, n) == \E k \in -60..60 : d = k * n

\* C30: one cron field matches a value v as follows: '*' matches every v,
\* 'N' only v = N, 'a,b,c' exactly the listed values, 'a-b' exactly the v
\* with a <= v <= b, '*/N' exactly the v with v mod N = 0 and 'a/N' exactly
\* the v with (v - a) mod N = 0 (N >= 1).
C30_FieldMatches ==
  Returned("matchCronPart") =>
    LET field == call.args[1]
        v == call.args[2]
    IN /\ field.kind = "star" => call.result
       /\ field.kind = "num" => (call.result <=> v = field.a)
       /\ field.kind = "list" => (call.result <=> v \in field.vals)
       /\ field.kind = "range" => (call.result <=> (field.a <= v /\ v <= field.b))
       /\ field.kind = "starstep" /\ field.b >= 1 =>
            (call.result <=> MultipleOf(v, field.b))
       /\ field.kind = "step" /\ field.b >= 1 =>
            (call.result <=> MultipleOf(v - field.a, field.b))

\* "30/15" matched the value 0, which lies below its base
C30_Witness ==
  /\ Returned("matchCronPart")
  /\ call.args = <<Step(30, 15), 0>>
  /\ call.result

\* "*/15" matched 45 and "5-1" matched nothing
C30_WitnessOthers ==
  /\ Returned("matchCronPart")
  /\ \/ call.args = <<StarStep(15), 45>> /\ call.result
     \/ call.args[1] = Range(5, 1) /\ ~call.result
\* the instant k minutes after after
MinutesAfter(after, k) == after + k * MinuteTicks

\* C31: nextAfter(pattern, after, tz) is the earliest of the instants
\* after + k minutes, 1 <= k <= 525600, that matches the pattern in tz, and
\* after + 1 hour when none of them matches, which is the case of every
\* malformed pattern.
C31_EarliestMatchOrFallback ==
  Returned("getNextCronTimeAfter") =>
    LET cron == call.args[1]
        after == call.args[2]
        tz == call.args[3]
        t == call.result.t
        k == (t - after) \div MinuteTicks
    IN /\ call.result.kind = "date"
       /\ \/ /\ t = MinutesAfter(after, k)
             /\ k \in 1..ScanLimit
             /\ matchesCron(cron, t, tz)
             /\ \A j \in 1..(k - 1) : ~matchesCron(cron, MinutesAfter(after, j), tz)
          \/ /\ t = after + HourTicks
             /\ \A j \in 1..ScanLimit : ~matchesCron(cron, MinutesAfter(after, j), tz)
       /\ Len(cron) # 5 => t = after + HourTicks

\* the yearly pattern asked at 2023-01-01T00:00Z was found at the last
\* instant of the search, 2024-01-01T00:00Z
C31_Witness ==
  /\ Returned("getNextCronTimeAfter")
  /\ call.args[1] = Yearly
  /\ call.args[2] = DateUTC(2023, 1, 1, 0, 0, 0)
  /\ call.result = DateOf(MinutesAfter(call.args[2], ScanLimit))
  /\ call.result = DateOf(DateUTC(2024, 1, 1, 0, 0, 0))

\* a well-formed pattern ran out of instants: the yearly one asked at
\* 2024-01-01T00:00Z, a leap year, and the 31st of February
C31_WitnessFallback ==
  /\ Returned("getNextCronTimeAfter")
  /\ call.args[1] \in {Yearly, NeverInFebruary}
  /\ call.result = DateOf(call.args[2] + HourTicks)

\* "*/5 * * * *" asked at 2024-01-01T00:02Z gave 00:05Z, and "0 9 * * *"
\* asked at the epoch in Asia/Shanghai gave 1970-01-01T01:00Z
C31_WitnessFound ==
  /\ Returned("getNextCronTimeAfter")
  /\ \/ /\ call.args[1] = <<StarStep(5), Star, Star, Star, Star>>
        /\ call.args[2] = DateUTC(2024, 1, 1, 0, 2, 0)
        /\ call.args[3] = "UTC"
        /\ call.result = DateOf(DateUTC(2024, 1, 1, 0, 5, 0))
     \/ /\ call.args[1] = <<Num(0), Num(9), Star, Star, Star>>
        /\ call.args[2] = 0
        /\ call.args[3] = "Asia/Shanghai"
        /\ call.result = DateOf(DateUTC(1970, 1, 1, 1, 0, 0))

\* a step in which the search returns, and one in which its result is
\* passed to the next search
ScanStep == call.fn = "getNextCronTimeAfter" /\ ~call.done /\ call'.done
ScanAgainStep == call.fn = "getNextCronTimeAfter" /\ call.done /\ ~call'.done

\* C32: for every pattern, well-formed, malformed or unmatchable, every
\* instant after and every zone, nextAfter(pattern, after, tz) is an instant
\* strictly greater than after; applied to its own result again and again
\* it therefore gives a strictly increasing sequence of instants.
C32_StrictlyAfter ==
  [][/\ ScanStep =>
          /\ call'.result.kind = "date"
          /\ call'.result.t > call.args[2]
     /\ ScanAgainStep =>
          /\ call'.args[2] = call.result.t
          /\ call'.args[2] > call.args[2]
          /\ <<call'.args[1], call'.args[3]>> = <<call.args[1], call.args[3]>>]_vars

\* the search was applied to its own result for a pattern of three fields,
\* and gave the instant two hours after the first after
C32_Witness ==
  /\ Returned("getNextCronTimeAfter")
  /\ call.args[1] = ThreeFields
  /\ call.args[4] = 1
  /\ call.result = DateOf(call.args[2] + HourTicks)
  /\ \E after \in ScanAfters : call.result = DateOf(after + 2 * HourTicks)

\* "* * * * *" applied to its own result, and the 31st of February likewise
C32_WitnessOthers ==
  /\ Returned("getNextCronTimeAfter")
  /\ call.args[4] = 1
  /\ \/ call.args[1] = EveryMinute /\ call.result.t = call.args[2] + MinuteTicks
     \/ call.args[1] = NeverInFebruary /\ call.result.t = StartTime + 2 * HourTicks

\* the fields of a task that are set when it is created
CreationFields(task) ==
  <<task.id, task.createdAt, task.schedule, task.message, task.title, task.pushover>>

\* C33: the id, createdAt, schedule, message, title and pushover parameters
\* of a task are the same from its creation to its removal: a task that is
\* stored before and after a step has them unchanged, a new task comes
\* under an id never used before, and a runDue changes nothing of a task it
\* keeps but lastRun and executionHistory.
C33_CreationFieldsNeverChange ==
  [][/\ \A i \in DOMAIN store \cap DOMAIN store' :
          CreationFields(store'[i]) = CreationFields(store[i])
     /\ \A i \in DOMAIN store' \ DOMAIN store : i \notin issued
     /\ RunDueStep =>
          \A i \in DOMAIN store \cap DOMAIN store' :
             store'[i] = [store[i] EXCEPT
                            !.lastRun = store'[i].lastRun,
                            !.executionHistory = store'[i].executionHistory]]_vars

\* a task created with a title and a pushover object was written back by
\* runDue, twice, with its log extended
C33_Witness ==
  /\ last.op = "alarm"
  /\ 1 \in DOMAIN store
  /\ store[1].title = "hello"
  /\ store[1].pushover = [priority |-> "1", sound |-> JsNull]
  /\ store[1].lastRun.set
  /\ Len(store[1].executionHistory) = 2

\* a step that serves GET /tasks, GET /tasks/:id or GET /tasks/:id/logs
ReadStep == last' # last /\ last'.op \in {"list", "get", "logs"}

\* C34: runDue(now) leaves every stored task that is not due at now as it
\* was: it is not dispatched, not modified and not deleted; so a timer that
\* fires when nothing is due changes nothing but the armed timer. list, get
\* and getLogs change neither the store nor the armed timer.
C34_NotDueUntouchedReadsPure ==
  [][/\ RunDueStep =>
          /\ \A i \in DOMAIN store :
                ~shouldRunTask(store[i], now, timeZone) =>
                   /\ i \in DOMAIN store' /\ store'[i] = store[i]
                   /\ i \notin DOMAIN last'.ran
                   /\ i \notin DOMAIN last'.sent
                   /\ okCount'[i] = okCount[i]
          /\ (\A i \in DOMAIN store : ~shouldRunTask(store[i], now, timeZone)) =>
                /\ store' = store
                /\ last'.ran = NoTasks /\ last'.sent = NoTasks
                /\ UNCHANGED <<okCount, issued, now, timeZone>>
     /\ ReadStep => UNCHANGED <<store, armed, issued, okCount, now, timeZone>>]_vars

\* the timer fired after the only task had been deleted: nothing ran, the
\* store is as it was and no timer is armed
C34_Witness ==
  /\ last.op = "alarm"
  /\ last.ran = NoTasks
  /\ store = NoTasks
  /\ issued = {1}
  /\ armed = Null

\* a once task that was not yet due was left as created by a runDue that
\* dispatched the other task, and a get read it afterwards
C34_WitnessNotDue ==
  /\ last.op = "get" /\ last.status = 200 /\ last.id = 2
  /\ okCount[1] = HistoryLimit
  /\ IsOnce(store[2])
  /\ ~store[2].lastRun.set
  /\ store[2].executionHistory = <<>>

\* a cron-matching minute of the task lies between its creation and clock
MatchSinceCreation(task, clock, tz) ==
  \E t \in task.createdAt..clock : matchesCron(task.schedule.cron, t, tz)

\* C35: runDue(now) dispatches a repeat task only if a minute that matches
\* its cron lies between the creation of the task and now; a repeat task
\* that has never run is not dispatched when the timer fires for another
\* task before the first match of its cron.
C35_RepeatNotBeforeFirstMatch ==
  [][RunDueStep =>
       \A i \in DOMAIN last'.ran :
          IsRepeat(last'.ran[i]) => MatchSinceCreation(last'.ran[i], now, timeZone)]_vars

\* "5 * * * *", created at 10:00Z and never run, was dispatched at 10:01Z
\* by the firing armed for a once task
C35_Reached ==
  /\ last.op = "alarm"
  /\ last.at = StartTime + MinuteTicks
  /\ DOMAIN last.ran = {1, 2}
  /\ last.ran[1].schedule.cron = HourlyAtFive
  /\ ~last.ran[1].lastRun.set
  /\ IsOnce(last.ran[2])

\* a repeat task that has run is dispatched on a match after its last run
C35_AfterFirstRunOnMatch ==
  [][RunDueStep =>
       \A i \in DOMAIN last'.ran :
          (IsRepeat(last'.ran[i]) /\ last'.ran[i].lastRun.set /\ ~Malformed(last'.ran[i])) =>
             \E t \in (last'.ran[i].lastRun.t + 1)..now :
                matchesCron(last'.ran[i].schedule.cron, t, timeZone)]_vars

\* C36: a delete(id) that completes while the dispatch of that task is in
\* flight is not undone: the end of a dispatch, with its post-run update,
\* never brings back a task that is no longer stored.
C36_DeleteNotUndone ==
  [][DispatchStep => DOMAIN store' \subseteq DOMAIN store]_vars

\* DELETE /tasks/1 was answered while the delivery of task 1 was awaited,
\* and the task is stored again, with the entry of that delivery
C36_Reached ==
  /\ last.op = "delete" /\ last.status = 200 /\ last.id = 1
  /\ batch.active
  /\ 1 \in DOMAIN batch.out
  /\ 1 \in DOMAIN store
  /\ store[1].lastRun.set

\* a dispatch that ends by deleting its task, or whose task is still
\* stored, brings nothing back
C36_OnlyWriteBackResurrects ==
  [][DispatchStep =>
       \A i \in DOMAIN store' \ DOMAIN store :
          /\ i \in DOMAIN batch.tasks
          /\ i \in DOMAIN batch'.out \ DOMAIN batch.out
          /\ ~deletesTask(batch.tasks[i], batch'.out[i])]_vars

\* a step in which POST /trigger-alarm starts its alarm()
TriggerBeginStep == ~manual.active /\ manual'.active

\* C37: when the manual trigger is invoked while the alarm() run by the
\* timer still awaits its deliveries, no task is dispatched by both for the
\* same due instant; in particular a once task is delivered at most once.
C37_NoTaskDispatchedByBoth ==
  [][/\ (TriggerBeginStep /\ batch.active) =>
          DOMAIN manual'.tasks \cap DOMAIN batch.tasks = {}
     /\ \A i \in Ids :
          (/\ okCount'[i] > okCount[i]
           /\ \/ i \in DOMAIN batch.tasks /\ IsOnce(batch.tasks[i])
              \/ i \in DOMAIN manual.tasks /\ IsOnce(manual.tasks[i]))
            => okCount'[i] <= 1]_vars

\* both the alarm() of the timer and the one of POST /trigger-alarm
\* delivered the once task
C37_Reached ==
  /\ okCount[1] = 2
  /\ last.op \in {"alarm", "trigger"}
  /\ 1 \in DOMAIN last.ran /\ IsOnce(last.ran[1]) /\ last.out[1].ok

\* a trigger that starts when no alarm() is in flight dispatches a once
\* task only if none has delivered it, and a repeat task only for a match
\* after its last run
C37_TriggerAloneDispatchesOnce ==
  [][(TriggerBeginStep /\ ~batch.active) =>
       \A i \in DOMAIN manual'.tasks :
          /\ IsOnce(manual'.tasks[i]) => okCount[i] = 0
          /\ IsRepeat(manual'.tasks[i]) =>
                \E t \in (manual'.tasks[i].lastRun.t + 1)..now :
                   matchesCronLocal(manual'.tasks[i].schedule.cron, t)]_vars

\* C38: a task created while a runDue awaits its deliveries is not lost
\* to the timer: when the runDue has ended, the create having completed
\* before, a timer is armed at an instant not later than the next-due
\* instant of every task created after the callback read its clock.
C38_CreatedDuringBatchIsArmed ==
  [][EndStep =>
       \A i \in DOMAIN store :
          (store[i].createdAt > batch.clock
           /\ NextDue(store[i], now).kind = "date") =>
             /\ armed'.kind = "date"
             /\ armed'.t <= NextDue(store[i], now).t]_vars

\* a once task for 10:01:00 was created while the delivery of the repeat
\* task was awaited, the runDue has ended and no timer is armed
C38_Reached ==
  /\ last.op = "alarm"
  /\ last.at = StartTime
  /\ ~batch.active
  /\ DOMAIN last.ran = {1}
  /\ \E i \in DOMAIN store :
        /\ store[i].schedule = Sched("once", Naive(2024, 1, 1, 10, 1, 0), NoCron)
        /\ store[i].createdAt > last.at
  /\ armed = Null

\* a stored once task whose datetime string parses to no instant
IsUnparseable(task) ==
  IsOnce(task) /\ parseDateTimeInTimeZone(task.schedule.datetime, timeZone).kind = "invalid"

\* the stored tasks apart from the unparseable ones
OtherTasks(s) == [i \in {j \in DOMAIN s : ~IsUnparseable(s[j])} |-> s[i]]

\* the earliest next-due instant of the tasks apart from the unparseable ones
EarliestOfOthers(s, clock) == findEarliestRunTime(listAllTasks(OtherTasks(s)), clock, timeZone)

\* a step that serves a POST /schedule which passes the validation
AcceptedCreateStep == CreateStep /\ last'.status # 400

\* the timer after the step is the one the operation arms for the tasks
\* apart from the unparseable ones: their earliest next-due instant, and
\* with no such instant none after a runDue, the former one after a create
TimerAsWithoutUnparseable ==
  LET earliest == EarliestOfOthers(store', now)
  IN IF Truthy(earliest) THEN armed' = earliest
     ELSE IF RunDueStep THEN armed' = Null
     ELSE armed' = armed

\* C39: a stored once task whose datetime cannot be parsed is never due,
\* and create and runDue arm the timer at the earliest next-due instant of
\* the other tasks, wherever the unparseable task stands in the listing.
C39_UnparseableOnceIsInert ==
  [][((AcceptedCreateStep \/ RunDueStep)
      /\ \E i \in DOMAIN store' : IsUnparseable(store'[i])) =>
        /\ \A i \in DOMAIN store : IsUnparseable(store[i]) =>
              ~shouldRunTask(store[i], now, timeZone)
        /\ RunDueStep => \A i \in DOMAIN last'.ran : ~IsUnparseable(last'.ran[i])
        /\ TimerAsWithoutUnparseable]_vars

\* the unparseable task is stored under the key listed first, a create of a
\* once task for 10:01:00 was answered 500 and no timer is armed
C39_Reached ==
  /\ last.op = "create"
  /\ last.status = 500
  /\ last.req = PlainRequest
  /\ \E i \in DOMAIN store :
        /\ IsUnparseable(store[i])
        /\ i < last.id
  /\ last.id \in DOMAIN store
  /\ armed = Null

\* no runDue dispatches an unparseable once task
C39_UnparseableNeverDispatched ==
  last.op = "alarm" => \A i \in DOMAIN last.ran : ~IsUnparseable(last.ran[i])

\* the task the listing returns first is not an unparseable one
FirstListedParses(s) ==
  s # NoTasks => ~IsUnparseable(listAllTasks(s)[1])

\* with a task of another kind listed first, create and runDue arm the
\* timer as they do without the unparseable tasks
C39_InertWhenNotListedFirst ==
  [][((AcceptedCreateStep \/ RunDueStep)
      /\ (\E i \in DOMAIN store' : IsUnparseable(store'[i]))
      /\ FirstListedParses(store')) => TimerAsWithoutUnparseable]_vars

====
